---- MODULE Spec2Model ----
(***************************************************************************)
(* Model of the payments ingestion API (src/src/api.py), its store         *)
(* (src/src/db/models.py, src/src/db/__init__.py) and the aggregate        *)
(* queries (src/src/db/queries.py).                                        *)
(***************************************************************************)
EXTENDS Integers, Sequences, FiniteSets, TLC

VARIABLES users, committed, req, now, dirtyReads, teardown, nin, nout,
          settings, snap

vars == <<users, committed, req, now, dirtyReads, teardown, nin, nout,
          settings, snap>>

(***************************************************************************)
(* Python decimal.Decimal and int values.  A coefficient is a sequence of  *)
(* decimal digits, most significant first, so that 28-digit precision and  *)
(* 64-bit ranges are computed digit by digit.                              *)
(***************************************************************************)

\* decimal.getcontext().prec of the default context used by `amount * 100`
Prec == 28

\* decimal.getcontext().Emax of the default context
Emax == 999999

NoValue == "None"

Rep(d, n) == [i \in 1..n |-> d]

IsZeroCoeff(ds) == \A i \in 1..Len(ds) : ds[i] = 0

RECURSIVE StripLeadingZeros(_)
StripLeadingZeros(ds) ==
    IF Len(ds) <= 1 THEN (IF ds = <<>> THEN <<0>> ELSE ds)
    ELSE IF ds[1] = 0 THEN StripLeadingZeros(Tail(ds))
    ELSE ds

\* str(int(coeff) + 1)
RECURSIVE Inc(_)
Inc(ds) ==
    IF ds = <<>> THEN <<1>>
    ELSE LET n == Len(ds)
             front == SubSeq(ds, 1, n - 1)
         IN  IF ds[n] < 9 THEN Append(front, ds[n] + 1)
             ELSE Append(Inc(front), 0)

\* Decimal._round_half_up: 1 when the first dropped digit is 5..9
RoundsUpHalfUp(ds, keep) == ds[keep + 1] >= 5

\* Decimal._round_half_even: above one half, or exactly one half and the
\* last kept digit odd
RoundsUpHalfEven(ds, keep) ==
    LET first == ds[keep + 1]
        restZero == \A i \in (keep + 2)..Len(ds) : ds[i] = 0
        lastKept == IF keep = 0 THEN 0 ELSE ds[keep]
    IN  \/ first > 5
        \/ first = 5 /\ ~restZero
        \/ first = 5 /\ restZero /\ lastKept % 2 = 1

\* coeff = self._int[:digits] or '0'; if changed == 1: coeff = str(int(coeff)+1)
RoundCoeff(ds, keep, up) ==
    LET kept == IF keep = 0 THEN <<0>> ELSE SubSeq(ds, 1, keep)
    IN  IF up THEN StripLeadingZeros(Inc(kept)) ELSE kept

Finite(sign, digits, exp) ==
    [kind |-> "finite", sign |-> sign, digits |-> digits, exp |-> exp]

Special(kind, sign) ==
    [kind |-> kind, sign |-> sign, digits |-> <<0>>, exp |-> 0]

Raise(exc) == [kind |-> "raise", exc |-> exc]

IsRaise(v) == v.kind = "raise"

\* Decimal._fix under the default context: Overflow when the adjusted
\* exponent exceeds Emax, rounding (ROUND_HALF_EVEN) to Prec digits
Fix(d) ==
    IF IsZeroCoeff(d.digits) THEN d
    ELSE LET len == Len(d.digits)
         IN  IF d.exp + len - 1 > Emax THEN Raise("Overflow")
             ELSE IF len <= Prec THEN d
             ELSE LET r == RoundCoeff(d.digits, Prec,
                                      RoundsUpHalfEven(d.digits, Prec))
                      e == d.exp + (len - Prec)
                  IN  IF Len(r) > Prec
                      THEN Finite(d.sign, SubSeq(r, 1, Prec), e + 1)
                      ELSE Finite(d.sign, r, e)

\* Decimal.__mul__(amount, 100): amount * 100
Mul100(d) ==
    CASE d.kind = "snan" -> Raise("InvalidOperation")
      [] d.kind \in {"nan", "inf"} -> d
      [] OTHER ->
           IF IsZeroCoeff(d.digits) THEN Finite(d.sign, <<0>>, d.exp)
           ELSE Fix(Finite(d.sign, d.digits \o <<0, 0>>, d.exp))

\* Decimal.to_integral_value(rounding=ROUND_HALF_UP)
ToIntegralValue(d) ==
    CASE d.kind = "snan" -> Raise("InvalidOperation")
      [] d.kind \in {"nan", "inf"} -> d
      [] OTHER ->
           IF d.exp >= 0 THEN d
           ELSE IF IsZeroCoeff(d.digits) THEN Finite(d.sign, <<0>>, 0)
           ELSE LET len == Len(d.digits)
                    keep == len + d.exp
                IN  IF keep < 0 THEN Finite(d.sign, <<0>>, 0)
                    ELSE Finite(d.sign,
                                RoundCoeff(d.digits, keep,
                                           RoundsUpHalfUp(d.digits, keep)),
                                0)

PyInt(neg, mag) == [kind |-> "int", neg |-> neg, mag |-> mag]

\* Decimal.__int__: int(d)
IntOf(d) ==
    CASE d.kind = "nan" -> Raise("ValueError")
      [] d.kind = "inf" -> Raise("OverflowError")
      [] OTHER ->
           LET mag == IF d.exp >= 0
                      THEN StripLeadingZeros(d.digits \o Rep(0, d.exp))
                      ELSE IF Len(d.digits) + d.exp <= 0 THEN <<0>>
                      ELSE StripLeadingZeros(
                               SubSeq(d.digits, 1, Len(d.digits) + d.exp))
           IN  PyInt(d.sign = 1 /\ ~IsZeroCoeff(mag), mag)

Http(code) == [kind |-> "http", code |-> code]

\* api.py _amount_to_cents: int((amount * 100).to_integral_value(ROUND_HALF_UP)),
\* with InvalidOperation and OverflowError turned into HTTP 422
amount_to_cents(amount) ==
    LET m == Mul100(amount)
        t == IF IsRaise(m) THEN m ELSE ToIntegralValue(m)
        i == IF IsRaise(t) THEN t ELSE IntOf(t)
    IN  IF IsRaise(i)
        THEN IF i.exc \in {"InvalidOperation", "OverflowError"}
             THEN Http("422")
             ELSE i
        ELSE i

\* round_half_up(p * 100) computed exactly, with no precision limit
RoundHalfUpTimes100(p) ==
    LET e == p.exp + 2
        len == Len(p.digits)
        mag == IF IsZeroCoeff(p.digits) THEN <<0>>
               ELSE IF e >= 0 THEN StripLeadingZeros(p.digits \o Rep(0, e))
               ELSE IF len + e < 0 THEN <<0>>
               ELSE RoundCoeff(p.digits, len + e, RoundsUpHalfUp(p.digits, len + e))
    IN  PyInt(p.sign = 1 /\ ~IsZeroCoeff(mag), mag)

\* digit-wise comparison of two magnitudes without leading zeros
RECURSIVE LexLeq(_, _)
LexLeq(a, b) ==
    IF a = <<>> THEN TRUE
    ELSE IF a[1] # b[1] THEN a[1] < b[1]
    ELSE LexLeq(Tail(a), Tail(b))

MagLeq(a, b) ==
    IF Len(a) # Len(b) THEN Len(a) < Len(b) ELSE LexLeq(a, b)

\* 2^63 - 1 and 2^63, the bounds of a signed 64-bit integer column
Int64MaxMag == <<9,2,2,3,3,7,2,0,3,6,8,5,4,7,7,5,8,0,7>>

Int64MinMag == <<9,2,2,3,3,7,2,0,3,6,8,5,4,7,7,5,8,0,8>>

FitsInt64(i) ==
    IF i.neg THEN MagLeq(i.mag, Int64MinMag) ELSE MagLeq(i.mag, Int64MaxMag)

RECURSIVE MagToInt(_)
MagToInt(ds) ==
    IF ds = <<>> THEN 0
    ELSE MagToInt(SubSeq(ds, 1, Len(ds) - 1)) * 10 + ds[Len(ds)]

\* the integer a Python int stands for (used below 10^9 only)
ToInt(i) == IF i.neg THEN 0 - MagToInt(i.mag) ELSE MagToInt(i.mag)


(***************************************************************************)
(* Bounds of the model.                                                    *)
(***************************************************************************)

\* number of ingestion requests, all of which may run concurrently
NumReq == 2

Reqs == 1..NumReq

\* the values uuid4() returns
TxIds == {"t1", "t2"}

(***************************************************************************)
(* Inputs.                                                                 *)
(***************************************************************************)

\* the tenants present at start: (username, api_key)
Tenants ==
    { [username |-> "alice", api_key |-> "kA"],
      [username |-> "bob", api_key |-> "kB"] }

\* bearer tokens / api_key parameters a client may send; NoValue = none sent
Tokens == {NoValue, "kA", "kB", "kX"}

P_0004 == Finite(0, <<4>>, -3)

P_1999 == Finite(0, <<1, 9, 9, 9>>, -2)

P_zero == Finite(0, <<0>>, 0)

P_neg == Finite(1, <<1>>, 0)

P_1e17 == Finite(0, <<1>>, 17)

\* prices a client may send: 0.004, 19.99, 0, -1, 1e17
Prices == {P_0004, P_1999, P_zero, P_neg, P_1e17}

Names == {"Ada"}

PayloadCurrencies == {NoValue}

PayloadStatuses == {NoValue}

Payloads ==
    [name : Names, price : Prices, currency : PayloadCurrencies,
     status : PayloadStatuses]

(***************************************************************************)
(* Request validation and the handlers' pure steps.                        *)
(***************************************************************************)

IsPositive(d) ==
    d.kind = "finite" /\ d.sign = 0 /\ ~IsZeroCoeff(d.digits)

\* pydantic: Decimal fields accept finite values only
IsFiniteDecimal(d) == d.kind = "finite"

\* TransactionCreate.currency: constr(min_length=3, max_length=3) = "USD"
FieldDefaultCurrency == "USD"

\* Settings.currency: os.getenv("PAYMENTS_CURRENCY", "USD")
SettingsCurrency == "USD"

StrLen(s) ==
    CASE s = "" -> 0
      [] s \in {"usd", "USD", "eur", "EUR"} -> 3
      [] OTHER -> 4

Upper(s) ==
    CASE s = "usd" -> "USD"
      [] s = "eur" -> "EUR"
      [] OTHER -> s

Lower(s) ==
    CASE s = "FAILED" -> "failed"
      [] s = "Success" -> "success"
      [] OTHER -> s

\* Python truthiness of an Optional[str]
Truthy(s) == s # NoValue /\ s # ""

\* the payload as the handler sees it: absent currency takes the field default
Parsed(p) ==
    [p EXCEPT !.currency = IF @ = NoValue THEN FieldDefaultCurrency ELSE @]

\* TransactionCreate: name 1..255 chars, price > 0, currency 3 chars,
\* status absent or 1..32 chars
TransactionCreate(p) ==
    /\ StrLen(p.name) >= 1
    /\ IsFiniteDecimal(p.price) /\ IsPositive(p.price)
    /\ StrLen(Parsed(p).currency) = 3
    /\ p.status = NoValue \/ StrLen(p.status) >= 1

\* POST /test parameters: name: str, price: Decimal, no further constraint
TestConsoleParams(p) == IsFiniteDecimal(p.price)

\* None, where a User is expected
NoUser == [username |-> NoValue, api_key |-> NoValue]

\* a faulty variant: the lookup ignores the key and returns some tenant
get_user_by_api_key_any(us, api_key) ==
    IF us = {} THEN NoUser ELSE CHOOSE u \in us : TRUE

\* queries.py get_user_by_api_key: select(User).where(User.api_key == api_key)
\* .scalar_one_or_none(); NoUser stands for None
get_user_by_api_key(us, api_key) ==
    LET hit == {u \in us : u.api_key = api_key}
    IN  IF hit = {} THEN NoUser ELSE CHOOSE u \in hit : TRUE

\* the status codes HTTPBearer(auto_error=True) answers a request without
\* credentials with (403 in FastAPI releases before 0.122, 401 since)
BearerRejectCodes == {"401", "403"}

\* require_api_key with its bearer dependency: the set of results, either
\* an error status or the tenant
require_api_key(us, token) ==
    IF token = NoValue THEN {Http(c) : c \in BearerRejectCodes}
    ELSE LET user == get_user_by_api_key(us, token)
         IN  IF user = NoUser THEN {Http("401")}
             ELSE {[kind |-> "user", user |-> user]}

(***************************************************************************)
(* The store: the committed rows of the transactions table, and for each   *)
(* request the row its session has flushed but not yet committed.          *)
(***************************************************************************)

IdsOf(rows) == {x.transaction_id : x \in rows}

\* rows flushed by the sessions of the other requests and not yet committed
PendingOfOthers(r) ==
    {req[q].row : q \in {q \in Reqs \ {r} : req[q].pc = "flushed"}}

\* a faulty variant: the unique constraint on transaction_id is missing
NoUniqueViolation(tid, rows) == FALSE

\* models.py Transaction.transaction_id: unique=True
UniqueViolation(tid, rows) == tid \in IdsOf(rows)

\* models.py Transaction.amount_cents: Column(Integer), a signed 64-bit
\* INTEGER in the default SQLite store
FitsColumn(amt) == FitsInt64(amt)

\* the value stored in amount_cents
Stored(amt) == IF Len(amt.mag) <= 9 THEN ToInt(amt) ELSE amt

\* session.flush() of one added row: what the INSERT raises, or "ok"
Flush(row, amt, rows) ==
    IF ~FitsColumn(amt) THEN "OverflowError"
    ELSE IF UniqueViolation(row.transaction_id, rows) THEN "IntegrityError"
    ELSE "ok"

\* session.rollback(): the flushed rows are discarded
Rollback(rows, pending) == rows

\* a faulty variant: a commit that writes the row twice, under a second key
CommitTwice(rows, pending) ==
    rows \cup pending \cup {[x EXCEPT !.req = 0] : x \in pending}

\* session.commit(): the flushed rows become durable
Commit(rows, pending) == rows \cup pending

\* a faulty variant: a reader also sees rows other sessions have only flushed
VisibleDirty(rows, pending) == rows \cup pending

\* the rows a statement of another session reads (read committed)
Visible(rows, pending) == rows

\* a faulty variant: currency and status are stored as the request gave them
NewTransactionAsGiven(user, p, amt, tid, t, r) ==
    [transaction_id |-> tid,
     api_key |-> user,
     customer_name |-> p.name,
     amount_cents |-> Stored(amt),
     currency |-> IF Truthy(p.currency) THEN p.currency ELSE settings,
     status |-> IF Truthy(p.status) THEN p.status ELSE "success",
     created_at |-> t,
     req |-> r]

\* create_transaction: the Transaction row built from the payload; req stands
\* for the surrogate primary key id, unique to each inserted row
NewTransaction(user, p, amt, tid, t, r) ==
    [transaction_id |-> tid,
     api_key |-> user,
     customer_name |-> p.name,
     amount_cents |-> Stored(amt),
     currency |-> Upper(IF Truthy(p.currency) THEN p.currency ELSE settings),
     status |-> Lower(IF Truthy(p.status) THEN p.status ELSE "success"),
     created_at |-> t,
     req |-> r]

\* test_console_submit: the Transaction row built from the query parameters
NewTestTransaction(user, p, amt, tid, t, r) ==
    [transaction_id |-> tid,
     api_key |-> user,
     customer_name |-> p.name,
     amount_cents |-> Stored(amt),
     currency |-> Upper(p.currency),
     status |-> "success",
     created_at |-> t,
     req |-> r]

(***************************************************************************)
(* The aggregate queries of db/queries.py, as functions of the rows the    *)
(* session sees.                                                           *)
(***************************************************************************)

\* instants of the clock per UTC calendar day
TicksPerDay == 2

\* func.date(created_at): the UTC calendar day of an instant
Day(t) == t \div TicksPerDay

\* a faulty variant: the statement is built without its WHERE clause
WhereApiKeyMissing(rows, api_key) == rows

\* if api_key: stmt = stmt.where(Transaction.api_key == api_key)
WhereApiKey(rows, api_key) ==
    IF Truthy(api_key) THEN {x \in rows : x.api_key = api_key} ELSE rows

RECURSIVE SumAmount(_)
\* func.coalesce(func.sum(Transaction.amount_cents), 0)
SumAmount(rows) ==
    IF rows = {} THEN 0
    ELSE LET x == CHOOSE y \in rows : TRUE
         IN  x.amount_cents + SumAmount(rows \ {x})

\* int(a / b) for b > 0 and |a| + b < 2^53, where the float quotient
\* truncates to the exact one (avg_ticket_cents below covers larger totals)
TruncDiv(a, b) == IF a >= 0 THEN a \div b ELSE 0 - ((0 - a) \div b)

RECURSIVE Gcd(_, _)
Gcd(a, b) == IF b = 0 THEN a ELSE Gcd(b, a % b)

\* the quotient a / b of two counts as a fraction in lowest terms
Ratio(a, b) == LET g == Gcd(a, b) IN <<a \div g, b \div g>>

MaxOf(S) == CHOOSE m \in S : \A o \in S : o <= m

MinOf(S) == CHOOSE m \in S : \A o \in S : m <= o

\* a faulty variant: the success count is taken over every tenant's rows
get_summary_success_unfiltered(rows, api_key) ==
    LET total_amount_cents == SumAmount(WhereApiKey(rows, api_key))
        total_transactions == Cardinality(WhereApiKey(rows, api_key))
        distinct_customers ==
            Cardinality({x.customer_name : x \in WhereApiKey(rows, api_key)})
        success_count == Cardinality({x \in rows : x.status = "success"})
        latest == {x.created_at : x \in WhereApiKey(rows, api_key)}
    IN  [total_volume_cents |-> total_amount_cents,
         total_transactions |-> total_transactions,
         unique_customers |-> distinct_customers,
         average_ticket_cents |->
             IF total_transactions # 0
             THEN TruncDiv(total_amount_cents, total_transactions) ELSE 0,
         success_rate |->
             IF total_transactions # 0
             THEN Ratio(success_count, total_transactions) ELSE <<0, 1>>,
         latest_transaction_at |->
             IF latest = {} THEN {} ELSE {MaxOf(latest)}]

\* queries.py get_summary; latest_transaction_at is the empty set for None
get_summary(rows, api_key) ==
    LET total_amount_cents == SumAmount(WhereApiKey(rows, api_key))
        total_transactions == Cardinality(WhereApiKey(rows, api_key))
        distinct_customers ==
            Cardinality({x.customer_name : x \in WhereApiKey(rows, api_key)})
        success_count ==
            Cardinality({x \in WhereApiKey(rows, api_key) : x.status = "success"})
        latest == {x.created_at : x \in WhereApiKey(rows, api_key)}
    IN  [total_volume_cents |-> total_amount_cents,
         total_transactions |-> total_transactions,
         unique_customers |-> distinct_customers,
         average_ticket_cents |->
             IF total_transactions # 0
             THEN TruncDiv(total_amount_cents, total_transactions) ELSE 0,
         success_rate |->
             IF total_transactions # 0
             THEN Ratio(success_count, total_transactions) ELSE <<0, 1>>,
         latest_transaction_at |->
             IF latest = {} THEN {} ELSE {MaxOf(latest)}]

RECURSIVE Ascending(_)
\* ORDER BY: the values of a set in ascending order
Ascending(S) ==
    IF S = {} THEN <<>>
    ELSE <<MinOf(S)>> \o Ascending(S \ {MinOf(S)})

\* a faulty variant: the statement has no cutoff
get_daily_volume_no_cutoff(rows, days, api_key, t) ==
    LET sel == WhereApiKey(rows, api_key)
        order == Ascending({Day(x.created_at) : x \in sel})
    IN  [i \in 1..Len(order) |->
            LET group == {x \in sel : Day(x.created_at) = order[i]}
            IN  [day |-> order[i],
                 amount_cents |-> SumAmount(group),
                 transactions |-> Cardinality(group)]]

\* queries.py get_daily_volume, called at instant t
get_daily_volume(rows, days, api_key, t) ==
    LET cutoff == t - (days - 1) * TicksPerDay
        sel == {x \in WhereApiKey(rows, api_key) : x.created_at >= cutoff}
        order == Ascending({Day(x.created_at) : x \in sel})
    IN  [i \in 1..Len(order) |->
            LET group == {x \in sel : Day(x.created_at) = order[i]}
            IN  [day |-> order[i],
                 amount_cents |-> SumAmount(group),
                 transactions |-> Cardinality(group)]]

\* a faulty variant: a missing status is filed under its own key
StatusLabelRaw(status) == status

\* the key get_status_breakdown files a status under
StatusLabel(status) == IF status = NoValue THEN "unknown" ELSE status

\* queries.py get_status_breakdown: a dict from label to count
get_status_breakdown(rows, api_key) ==
    LET sel == WhereApiKey(rows, api_key)
    IN  [l \in {StatusLabel(x.status) : x \in sel} |->
            Cardinality({x \in sel : StatusLabel(x.status) = l})]

\* the days arguments the queries are called with: 14 by load_snapshot, 7 by
\* default, and short windows
WindowDays == {1, 2, 7, 14}

(***************************************************************************)
(* Requests.                                                               *)
(***************************************************************************)

\* the result slot of a call not made yet
NotCalled == [kind |-> "pending"]

\* no snapshot loaded by the dashboard since the last write
NoSnap == [key |-> NoValue]

\* no payload read yet, no row built yet
NoPayload ==
    [name |-> NoValue, price |-> Special("none", 0), currency |-> NoValue,
     status |-> NoValue]

NoRow ==
    [transaction_id |-> NoValue, api_key |-> NoValue, customer_name |-> NoValue,
     amount_cents |-> 0, currency |-> NoValue, status |-> NoValue,
     created_at |-> 0, req |-> 0]

\* a request: the handler it goes to, its position, its inputs as far as
\* they have been read (token, payload), the tenant it resolved to, whether
\* _amount_to_cents was called, the generated transaction_id, the row its
\* session holds, the exception that ended it and the response
IdleReq ==
    [pc |-> "idle", handler |-> NoValue, token |-> NoValue, user |-> NoValue,
     payload |-> NoPayload, reached |-> FALSE, tid |-> NoValue,
     row |-> NoRow, exc |-> NoValue, outcome |-> NoValue]

Done(q, outcome) == [q EXCEPT !.pc = "done", !.outcome = outcome]

\* when the framework runs the exit code of a dependency with yield (get_db
\* after its yield): before it sends the response (FastAPI 0.106 to 0.117)
\* or after it has sent it (earlier and later releases)
TeardownOrders == {"before_response", "after_response"}

\* requests are numbered in their order of arrival
Arrived(r) == \A q \in Reqs : q < r => req[q].pc # "idle"

Init == /\ users = Tenants
        /\ committed = {}
        /\ req = [r \in Reqs |-> IdleReq]
        /\ now = 0
        /\ dirtyReads = {}
        /\ teardown \in TeardownOrders
        /\ nin = Special("none", 0)
        /\ nout = NotCalled
        /\ settings = SettingsCurrency
        /\ snap = NoSnap

\* POST /transactions, dependencies: get_db opens the session, the bearer
\* scheme and require_api_key resolve the caller; on an HTTPException the
\* session is rolled back and the error is the response
PostAuth(r) ==
    /\ req[r].pc = "idle"
    /\ Arrived(r)
    /\ \E token \in Tokens :
         \E res \in require_api_key(users, token) :
            LET q == [req[r] EXCEPT !.handler = "post", !.token = token]
            IN  req' = [req EXCEPT ![r] =
                          IF res.kind = "http" THEN Done(q, res.code)
                          ELSE [q EXCEPT !.pc = "authed",
                                         !.user = res.user.api_key]]
    /\ committed' = Rollback(committed, {})
    /\ UNCHANGED <<users, now, dirtyReads, teardown, nin, nout, settings, snap>>

\* POST /transactions, body validation and the handler up to session.flush()
PostHandle(r) ==
    /\ req[r].pc = "authed"
    /\ req[r].handler = "post"
    /\ \E p \in Payloads, tid \in TxIds :
         LET q == [req[r] EXCEPT !.payload = p]
         IN
         IF ~TransactionCreate(p)
         THEN /\ req' = [req EXCEPT ![r] = Done(q, "422")]
              /\ committed' = Rollback(committed, {})
         ELSE
         LET amt == amount_to_cents(Parsed(p).price)
             qn == [q EXCEPT !.reached = TRUE]
         IN
         IF amt.kind = "http"
         THEN /\ req' = [req EXCEPT ![r] = Done(qn, amt.code)]
              /\ committed' = Rollback(committed, {})
         ELSE IF amt.kind = "raise"
         THEN /\ req' = [req EXCEPT ![r] = Done([qn EXCEPT !.exc = amt.exc], "500")]
              /\ committed' = Rollback(committed, {})
         ELSE
         LET row == NewTransaction(req[r].user, Parsed(p), amt, tid, now, r)
             res == Flush(row, amt, committed)
             qf == [qn EXCEPT !.tid = tid]
         IN
         \* an INSERT that meets the uncommitted row of another session with
         \* the same key waits for that session to end
         /\ tid \notin IdsOf(PendingOfOthers(r))
         /\ IF res = "ok"
            \* the handler returns the 201 response; the session is committed
            \* by get_db afterwards
            THEN /\ req' = [req EXCEPT ![r] =
                              [qf EXCEPT !.pc = "flushed", !.row = row,
                                         !.outcome = IF teardown = "after_response"
                                                     THEN "201" ELSE NoValue]]
                 /\ UNCHANGED committed
            ELSE /\ req' = [req EXCEPT ![r] =
                              Done([IF res = "IntegrityError" THEN qf ELSE qn
                                      EXCEPT !.exc = res],
                                   IF res = "IntegrityError" THEN "409" ELSE "500")]
                 /\ committed' = Rollback(committed, {row})
    /\ UNCHANGED <<users, now, dirtyReads, teardown, nin, nout, settings, snap>>

\* get_db after the handler returned: session.commit(), or rollback and
\* re-raise when the commit fails; the error reaches the client only when
\* the response has not been sent yet
PostCommit(r) ==
    /\ req[r].pc = "flushed"
    /\ req[r].handler = "post"
    /\ \E ok \in BOOLEAN :
         IF ok
         THEN /\ committed' = Commit(committed, {req[r].row})
              /\ req' = [req EXCEPT ![r] = Done(@, "201")]
         ELSE /\ committed' = Rollback(committed, {req[r].row})
              /\ req' = [req EXCEPT ![r] =
                           Done([@ EXCEPT !.exc = "OperationalError"],
                                IF teardown = "after_response" THEN "201" ELSE "500")]
    /\ UNCHANGED <<users, now, dirtyReads, teardown, nin, nout, settings, snap>>

\* POST /test: parameters, then get_user_by_api_key inside session_scope
TestLookup(r) ==
    /\ req[r].pc = "idle"
    /\ Arrived(r)
    /\ \E token \in Tokens :
         LET q == [req[r] EXCEPT !.handler = "test", !.token = token]
             user == get_user_by_api_key(users, token)
         IN  req' = [req EXCEPT ![r] =
                       IF token = NoValue THEN Done(q, "422")
                       ELSE IF user = NoUser THEN Done(q, "page:Invalid API key")
                       ELSE [q EXCEPT !.pc = "authed", !.user = user.api_key]]
    /\ UNCHANGED <<users, committed, now, dirtyReads, teardown, nin, nout, settings, snap>>

\* POST /test: the try block up to session.flush(); every exception is
\* caught and shown on the page, and session_scope then commits
TestHandle(r) ==
    /\ req[r].pc = "authed"
    /\ req[r].handler = "test"
    /\ \E p \in Payloads, tid \in TxIds :
         LET pp == [p EXCEPT !.currency = IF @ = NoValue THEN "USD" ELSE @]
             q == [req[r] EXCEPT !.payload = p, !.reached = TRUE]
             amt == amount_to_cents(pp.price)
         IN
         /\ TestConsoleParams(p)
         /\ IF amt.kind # "int"
            THEN /\ req' = [req EXCEPT ![r] =
                              Done([q EXCEPT !.exc = IF amt.kind = "http" THEN "HTTPException"
                                                     ELSE amt.exc],
                                   "page:error")]
                 /\ UNCHANGED committed
            ELSE
            LET row == NewTestTransaction(req[r].user, pp, amt, tid, now, r)
                res == Flush(row, amt, committed)
                qf == [q EXCEPT !.tid = tid]
            IN
            /\ tid \notin IdsOf(PendingOfOthers(r))
            /\ IF res = "ok"
               THEN /\ req' = [req EXCEPT ![r] = [qf EXCEPT !.pc = "flushed", !.row = row]]
                    /\ UNCHANGED committed
               \* the exception is caught, and the commit of session_scope then
               \* raises on the session the failed flush left inactive
               ELSE /\ req' = [req EXCEPT ![r] =
                                 Done([IF res = "IntegrityError" THEN qf ELSE q
                                         EXCEPT !.exc = res], "500")]
                    /\ committed' = Rollback(committed, {row})
    /\ UNCHANGED <<users, now, dirtyReads, teardown, nin, nout, settings, snap>>

\* session_scope at the end of the with block: commit, or rollback and raise
TestCommit(r) ==
    /\ req[r].pc = "flushed"
    /\ req[r].handler = "test"
    /\ \E ok \in BOOLEAN :
         IF ok
         THEN /\ committed' = Commit(committed, {req[r].row})
              /\ req' = [req EXCEPT ![r] = Done(@, "page:Success")]
         ELSE /\ committed' = Rollback(committed, {req[r].row})
              /\ req' = [req EXCEPT ![r] =
                           Done([@ EXCEPT !.exc = "OperationalError"], "500")]
    /\ UNCHANGED <<users, now, dirtyReads, teardown, nin, nout, settings, snap>>

\* a reader session (get_recent_transactions and the aggregate queries)
\* executes a statement and sees the rows visible to it; dirtyReads keeps
\* the rows it was given that were not committed at that moment
Read ==
    /\ dirtyReads' = dirtyReads \cup
                        (Visible(committed, PendingOfOthers(0)) \ committed)
    /\ UNCHANGED <<users, committed, req, now, teardown, nin, nout, settings, snap>>

Next ==
    \/ \E r \in Reqs : PostAuth(r)
    \/ \E r \in Reqs : PostHandle(r)
    \/ \E r \in Reqs : PostCommit(r)
    \/ \E r \in Reqs : TestLookup(r)
    \/ \E r \in Reqs : TestHandle(r)
    \/ \E r \in Reqs : TestCommit(r)
    \/ Read

Spec == Init /\ [][Next]_vars

(***************************************************************************)
(* One request at a time while time passes: the store the aggregate        *)
(* queries read.                                                           *)
(***************************************************************************)

\* most rows the store holds
AggMaxRows == 3

\* last instant of the clock
AggMaxClock == 3

\* the n-th value of uuid4()
AggTxId(n) == <<"t1", "t2", "t3", "t4", "t5">>[n]

AggInit ==
    /\ users = Tenants
    /\ committed = {}
    /\ req = [r \in Reqs |-> IdleReq]
    /\ now = 0
    /\ dirtyReads = {}
    /\ teardown = "before_response"
    /\ nin = Special("none", 0)
    /\ nout = NotCalled
    /\ settings = SettingsCurrency
    /\ snap = NoSnap

\* a whole successful request, run alone: lookup of the caller, validation,
\* normalisation, flush and commit
AggIngest ==
    /\ Cardinality(committed) < AggMaxRows
    /\ \E handler \in {"post", "test"}, token \in Tokens, p \in Payloads :
         LET user == get_user_by_api_key(users, token)
             amt == amount_to_cents(Parsed(p).price)
             n == Cardinality(committed) + 1
             row == IF handler = "post"
                    THEN NewTransaction(user.api_key, Parsed(p), amt, AggTxId(n), now, n)
                    ELSE NewTestTransaction(user.api_key, Parsed(p), amt, AggTxId(n), now, n)
         IN  /\ user # NoUser
             /\ IF handler = "post" THEN TransactionCreate(p) ELSE TestConsoleParams(p)
             /\ amt.kind = "int"
             /\ Flush(row, amt, committed) = "ok"
             /\ committed' = Commit(committed, {row})
    /\ UNCHANGED <<users, req, now, dirtyReads, teardown, nin, nout, settings, snap>>

\* time passes
AggTick ==
    /\ now < AggMaxClock
    /\ now' = now + 1
    /\ UNCHANGED <<users, committed, req, dirtyReads, teardown, nin, nout, settings, snap>>

AggNext == AggIngest \/ AggTick

AggSpec == AggInit /\ [][AggNext]_vars

(***************************************************************************)
(* The normaliser alone, applied to one price.                             *)
(***************************************************************************)

\* longest run of one digit inside a coefficient
MaxRun == 28

\* coefficients: a leading digit, a run of one digit, an optional last digit
NormCoeffs ==
    {<<h>> \o Rep(m, k) \o t :
        h \in {1, 4, 5, 9}, m \in {0, 4, 5, 9}, k \in 0..MaxRun,
        t \in {<<>>, <<4>>, <<5>>, <<6>>}}

NormInputs ==
    {Finite(sg, c[1], c[2]) :
        sg \in {0, 1}, c \in {<<d, e>> : d \in NormCoeffs, e \in {-40, -31, -30, -3, -2, 0, 2}}}
    \cup {Finite(0, <<0>>, 0), Special("inf", 0), Special("nan", 0), Special("snan", 0)}

NormInit ==
    /\ users = Tenants
    /\ committed = {}
    /\ req = [r \in Reqs |-> IdleReq]
    /\ now = 0
    /\ dirtyReads = {}
    /\ teardown = "before_response"
    /\ nin \in NormInputs
    /\ nout = NotCalled
    /\ settings = SettingsCurrency
    /\ snap = NoSnap

\* one call of _amount_to_cents
NormApply ==
    /\ nout = NotCalled
    /\ nout' = amount_to_cents(nin)
    /\ UNCHANGED <<users, committed, req, now, dirtyReads, teardown, nin,
                   settings, snap>>

NormNext == NormApply

NormSpec == NormInit /\ [][NormNext]_vars

(***************************************************************************)
(* One request at a time with every spelling of currency and status, under *)
(* each value of the PAYMENTS_CURRENCY setting.                            *)
(***************************************************************************)

\* most rows the store holds
FieldMaxRows == 2

\* values of PAYMENTS_CURRENCY
SettingCurrencies == {"USD", "EUR", "eur"}

FieldCurrencies == {NoValue, "usd", "EUR", "EURO"}

FieldStatuses == {NoValue, "FAILED", "Success", ""}

FieldPayloads ==
    [name : Names, price : {P_1999}, currency : FieldCurrencies,
     status : FieldStatuses]

FieldInit ==
    /\ users = Tenants
    /\ committed = {}
    /\ req = [r \in Reqs |-> IdleReq]
    /\ now = 0
    /\ dirtyReads = {}
    /\ teardown = "before_response"
    /\ nin = Special("none", 0)
    /\ nout = NotCalled
    /\ settings \in SettingCurrencies
    /\ snap = NoSnap

\* a whole request of a known tenant, run alone; req[1] keeps the last one
FieldIngest ==
    /\ Cardinality(committed) < FieldMaxRows
    /\ \E handler \in {"post", "test"}, token \in Tokens, p \in FieldPayloads :
         LET user == get_user_by_api_key(users, token)
             amt == amount_to_cents(Parsed(p).price)
             n == Cardinality(committed) + 1
             row == IF handler = "post"
                    THEN NewTransaction(user.api_key, Parsed(p), amt, AggTxId(n), now, n)
                    ELSE NewTestTransaction(user.api_key, Parsed(p), amt, AggTxId(n), now, n)
             q == [IdleReq EXCEPT !.handler = handler, !.token = token,
                                  !.user = user.api_key, !.payload = p]
         IN  /\ user # NoUser
             /\ handler = "test" => (p.status = NoValue /\ TestConsoleParams(p))
             /\ IF handler = "post" /\ ~TransactionCreate(p)
                THEN /\ req' = [req EXCEPT ![1] = Done(q, "422")]
                     /\ committed' = Rollback(committed, {})
                ELSE /\ amt.kind = "int"
                     /\ Flush(row, amt, committed) = "ok"
                     /\ committed' = Commit(committed, {row})
                     /\ req' = [req EXCEPT ![1] =
                                  Done([q EXCEPT !.reached = TRUE, !.tid = row.transaction_id,
                                                 !.row = row],
                                       IF handler = "post" THEN "201" ELSE "page:Success")]
    /\ UNCHANGED <<users, now, dirtyReads, teardown, nin, nout, settings, snap>>

FieldNext == FieldIngest

FieldSpec == FieldInit /\ [][FieldNext]_vars

(***************************************************************************)
(* The store as the dashboard queries read it: requests one at a time over *)
(* a fortnight, in a database that may hold a row from before.             *)
(***************************************************************************)

\* most rows the requests add
QMaxRows == 2

\* the calendar days the clock visits
QDays == {0, 13, 14}

QInstants == {d * TicksPerDay + k : d \in QDays, k \in 0..(TicksPerDay - 1)}

P_negcent == Finite(1, <<1>>, -2)

\* requests: handler, token, payload
QInputs ==
    {<<"post", "kA", [name |-> "Ada", price |-> P_1999, currency |-> NoValue, status |-> NoValue]>>,
     <<"post", "kA", [name |-> "Bob", price |-> P_1999, currency |-> NoValue, status |-> "FAILED"]>>,
     <<"post", "kA", [name |-> "Ada", price |-> P_0004, currency |-> NoValue, status |-> "unknown"]>>,
     <<"test", "kA", [name |-> "Ada", price |-> P_negcent, currency |-> NoValue, status |-> NoValue]>>,
     <<"post", "kB", [name |-> "Ada", price |-> P_1999, currency |-> NoValue, status |-> NoValue]>>,
     <<"post", "kB", [name |-> "Bob", price |-> P_1999, currency |-> NoValue, status |-> "FAILED"]>>}

\* a row of an existing database (init_db runs against existing databases),
\* written before status was always set
LegacyRow ==
    [transaction_id |-> "t0", api_key |-> "kA", customer_name |-> "Ada",
     amount_cents |-> 1999, currency |-> "USD", status |-> NoValue,
     created_at |-> 0, req |-> 0]

QInit ==
    /\ users = Tenants
    /\ committed \in {{}, {LegacyRow}}
    /\ req = [r \in Reqs |-> IdleReq]
    /\ now = 0
    /\ dirtyReads = {}
    /\ teardown = "before_response"
    /\ nin = Special("none", 0)
    /\ nout = NotCalled
    /\ settings = SettingsCurrency
    /\ snap = NoSnap

\* a whole successful request, run alone
QIngest ==
    /\ Cardinality(committed \ {LegacyRow}) < QMaxRows
    /\ \E in \in QInputs :
         LET user == get_user_by_api_key(users, in[2])
             p == in[3]
             amt == amount_to_cents(Parsed(p).price)
             n == Cardinality(committed \ {LegacyRow}) + 1
             row == IF in[1] = "post"
                    THEN NewTransaction(user.api_key, Parsed(p), amt, AggTxId(n), now, n)
                    ELSE NewTestTransaction(user.api_key, Parsed(p), amt, AggTxId(n), now, n)
         IN  /\ user # NoUser
             /\ IF in[1] = "post" THEN TransactionCreate(p) ELSE TestConsoleParams(p)
             /\ amt.kind = "int"
             /\ Flush(row, amt, committed) = "ok"
             /\ committed' = Commit(committed, {row})
    /\ UNCHANGED <<users, req, now, dirtyReads, teardown, nin, nout, settings, snap>>

\* time passes
QTick ==
    /\ \E t \in QInstants : t > now /\ now' = t
    /\ UNCHANGED <<users, committed, req, dirtyReads, teardown, nin, nout, settings, snap>>

QNext == QIngest \/ QTick

QuerySpec == QInit /\ [][QNext]_vars

(***************************************************************************)
(* The dashboard loading its snapshot again and again while a request      *)
(* writes and time passes.                                                 *)
(***************************************************************************)

\* most rows the store holds
SnapMaxRows == 2

\* dashboard.py load_snapshot: the three aggregates read in one session
LoadSnapshot(rows, api_key, t) ==
    [summary |-> get_summary(rows, api_key),
     daily |-> get_daily_volume(rows, 14, api_key, t),
     statuses |-> get_status_breakdown(rows, api_key)]

SnapInit ==
    /\ users = Tenants
    /\ committed = {}
    /\ req = [r \in Reqs |-> IdleReq]
    /\ now = 0
    /\ dirtyReads = {}
    /\ teardown = "before_response"
    /\ nin = Special("none", 0)
    /\ nout = NotCalled
    /\ settings = SettingsCurrency
    /\ snap = NoSnap

\* a request of a tenant up to session.flush()
SnapFlush ==
    /\ req[1].pc = "idle"
    /\ Cardinality(committed) < SnapMaxRows
    /\ \E u \in users :
         LET p == [name |-> "Ada", price |-> P_1999, currency |-> NoValue,
                   status |-> NoValue]
             amt == amount_to_cents(Parsed(p).price)
             n == Cardinality(committed) + 1
             row == NewTransaction(u.api_key, Parsed(p), amt, AggTxId(n), now, n)
         IN  /\ TransactionCreate(p)
             /\ Flush(row, amt, committed) = "ok"
             /\ req' = [req EXCEPT ![1] =
                          [@ EXCEPT !.pc = "flushed", !.handler = "post",
                                    !.token = u.api_key, !.user = u.api_key,
                                    !.payload = p, !.row = row]]
    /\ UNCHANGED <<users, committed, now, dirtyReads, teardown, nin, nout, settings, snap>>

\* get_db commits the request: a write, after which earlier snapshots are
\* no longer compared
SnapCommit ==
    /\ req[1].pc = "flushed"
    /\ committed' = Commit(committed, {req[1].row})
    /\ req' = [req EXCEPT ![1] = IdleReq]
    /\ snap' = NoSnap
    /\ UNCHANGED <<users, now, dirtyReads, teardown, nin, nout, settings>>

\* get_db rolls the request back: nothing is written
SnapRollback ==
    /\ req[1].pc = "flushed"
    /\ committed' = Rollback(committed, {req[1].row})
    /\ req' = [req EXCEPT ![1] = IdleReq]
    /\ UNCHANGED <<users, now, dirtyReads, teardown, nin, nout, settings, snap>>

\* time passes
SnapTick ==
    /\ \E t \in QInstants : t > now /\ now' = t
    /\ UNCHANGED <<users, committed, req, dirtyReads, teardown, nin, nout, settings, snap>>

\* load_snapshot for one tenant, in a session of its own that session_scope
\* commits; snap keeps the result, the instant, and whether it is the first
\* or a later load since the last write
SnapLoad ==
    /\ \E u \in users :
         snap' = [key |-> u.api_key,
                  at |-> now,
                  again |-> (snap # NoSnap /\ snap.key = u.api_key),
                  result |-> LoadSnapshot(Visible(committed, PendingOfOthers(0)),
                                          u.api_key, now)]
    /\ committed' = Commit(committed, {})
    /\ UNCHANGED <<users, req, now, dirtyReads, teardown, nin, nout, settings>>

SnapNext == SnapFlush \/ SnapCommit \/ SnapRollback \/ SnapTick \/ SnapLoad

SnapSpec == SnapInit /\ [][SnapNext]_vars

(***************************************************************************)
(* The average ticket of get_summary on totals of any size:                *)
(* int(total_amount_cents / total_transactions), a true division of two    *)
(* Python ints, which gives the binary64 float nearest to the quotient.    *)
(***************************************************************************)

RECURSIVE DivDigits(_, _, _, _)
\* long division of a digit sequence by a small integer
DivDigits(ds, b, rem, acc) ==
    IF ds = <<>> THEN [quot |-> StripLeadingZeros(acc), rem |-> rem]
    ELSE DivDigits(Tail(ds), b, (rem * 10 + ds[1]) % b,
                   Append(acc, (rem * 10 + ds[1]) \div b))

DivSmall(ds, b) == DivDigits(ds, b, 0, <<>>)

RECURSIVE DoubleFrom(_, _, _, _)
DoubleFrom(ds, i, carry, acc) ==
    IF i = 0 THEN (IF carry = 0 THEN acc ELSE <<carry>> \o acc)
    ELSE DoubleFrom(ds, i - 1, (2 * ds[i] + carry) \div 10,
                    <<(2 * ds[i] + carry) % 10>> \o acc)

\* twice a digit sequence
Double(ds) == DoubleFrom(ds, Len(ds), 0, <<>>)

\* 2^53 and 2^54: a binary64 significand has 53 bits
Pow2_53 == <<9,0,0,7,1,9,9,2,5,4,7,4,0,9,9,2>>

Pow2_54 == <<1,8,0,1,4,3,9,8,5,0,9,4,8,1,9,8,4>>

RECURSIVE ScaleDown(_, _, _)
\* halve v until it has 54 bits, counting the halvings and keeping whether
\* anything non-zero was dropped
ScaleDown(v, k, sticky) ==
    IF MagLeq(Pow2_54, v)
    THEN ScaleDown(DivSmall(v, 2).quot, k + 1, sticky \/ DivSmall(v, 2).rem # 0)
    ELSE [v |-> v, k |-> k, sticky |-> sticky]

RECURSIVE ScaleUp(_, _, _)
\* double a until a / b has 54 bits
ScaleUp(a, b, k) ==
    IF MagLeq(Pow2_53, DivSmall(a, b).quot)
    THEN [v |-> DivSmall(a, b).quot, k |-> k, sticky |-> DivSmall(a, b).rem # 0]
    ELSE ScaleUp(Double(a), b, k - 1)

\* the quotient a / b scaled to 54 bits: 53 bits of significand and the
\* rounding bit
Scaled(a, b) ==
    IF MagLeq(Pow2_53, DivSmall(a, b).quot)
    THEN ScaleDown(DivSmall(a, b).quot, 0, DivSmall(a, b).rem # 0)
    ELSE ScaleUp(a, b, 0)

IsOdd(ds) == ds[Len(ds)] % 2 = 1

\* the 53-bit significand of the float nearest to a / b, ties to even
Significand(sc) ==
    LET m == DivSmall(sc.v, 2).quot
    IN  IF IsOdd(sc.v) /\ (sc.sticky \/ IsOdd(m)) THEN Inc(m) ELSE m

RECURSIVE TimesPow2(_, _)
\* int(m * 2^e)
TimesPow2(m, e) ==
    IF e = 0 THEN m
    ELSE IF e > 0 THEN TimesPow2(Double(m), e - 1)
    ELSE TimesPow2(DivSmall(m, 2).quot, e + 1)

\* int(a / b) for a >= 0 and 0 < b < 10^6; below 10^15 the float nearest to
\* a / b lies under the next integer (a + b < 2^53), so it truncates to the
\* exact quotient
IntTrueDiv(a, b) ==
    IF Len(a) <= 15 THEN DivSmall(a, b).quot
    ELSE TimesPow2(Significand(Scaled(a, b)), Scaled(a, b).k + 1)

\* queries.py get_summary: avg_ticket_cents
avg_ticket_cents(total_amount_cents, total_transactions) ==
    IF total_transactions # 0
    THEN PyInt(total_amount_cents.neg
                  /\ ~IsZeroCoeff(IntTrueDiv(total_amount_cents.mag, total_transactions)),
               IntTrueDiv(total_amount_cents.mag, total_transactions))
    ELSE PyInt(FALSE, <<0>>)

\* most transactions behind a total
AvgMaxCount == 3

\* how far the totals reach above each base
AvgSpread == 7

RECURSIVE AddSmall(_, _)
AddSmall(ds, d) == IF d = 0 THEN ds ELSE AddSmall(Inc(ds), d - 1)

\* totals around 0, a small sum, 2^52, 2^53, 2^54 and 10^17; every one is
\* within the signed 64-bit range of the column
AvgTotals ==
    {AddSmall(base, d) :
        base \in {<<0>>, <<1,9,9,9>>, DivSmall(Pow2_53, 2).quot, Pow2_53, Pow2_54,
                  <<1>> \o Rep(0, 17)},
        d \in 0..AvgSpread}

AvgInit ==
    /\ users = Tenants
    /\ committed = {}
    /\ req = [r \in Reqs |-> IdleReq]
    /\ now = 0
    /\ dirtyReads = {}
    /\ teardown = "before_response"
    /\ nin \in {[kind |-> "totals", total |-> PyInt(FALSE, t), count |-> c] :
                   t \in AvgTotals, c \in 1..AvgMaxCount}
    /\ nout = NotCalled
    /\ settings = SettingsCurrency
    /\ snap = NoSnap

\* get_summary computes the average ticket of a total and a count
AvgApply ==
    /\ nout = NotCalled
    /\ nout' = avg_ticket_cents(nin.total, nin.count)
    /\ UNCHANGED <<users, committed, req, now, dirtyReads, teardown, nin,
                   settings, snap>>

AvgNext == AvgApply

AvgSpec == AvgInit /\ [][AvgNext]_vars

(***************************************************************************)
(* The dashboard (src/src/dashboard.py) with its password functions        *)
(* (src/src/auth.py): browsers sign up, log in, log out and look at their  *)
(* transactions while requests are ingested.  Here the variable users      *)
(* holds the committed rows of the users table with their password hashes, *)
(* and req holds the browser sessions.  TenantSpec has the browsers sign   *)
(* up and log in concurrently; ViewSpec has one browser use every view     *)
(* while transactions are ingested.                                        *)
(***************************************************************************)

\* number of browser sessions, which may run concurrently
NumBrowsers == 2

Browsers == 1..NumBrowsers

\* most transactions the store holds in ViewSpec
DashMaxRows == 2

\* a string is a sequence of parts, each a piece of text or a digest
Part(s) == [part |-> s]

\* the position of the first part of s equal to sep, 0 if there is none
\* (unpacking str.split(sep, 1) raises ValueError then)
FirstIndex(s, sep) ==
    IF \E i \in 1..Len(s) : s[i] = sep
    THEN CHOOSE i \in 1..Len(s) : s[i] = sep /\ \A j \in 1..(i - 1) : s[j] # sep
    ELSE 0

\* hashlib.sha256(...).hexdigest(), taken as free of collisions: one part
\* that stands for the digest of the encoded text
Sha256(s) == [sha256 |-> s]

\* auth.py _hash_with_salt: sha256 of f"{salt}:{value}"
hash_with_salt(value, salt) == Sha256(salt \o <<Part(":")>> \o value)

\* auth.py hash_password with the salt secrets.token_hex(16) returned
hash_password(password, salt) ==
    salt \o <<Part("$")>> \o <<hash_with_salt(password, salt)>>

\* a faulty variant: any stored hash with a separator is accepted
verify_password_any(password, password_hash) ==
    FirstIndex(password_hash, Part("$")) # 0

\* auth.py verify_password
verify_password(password, password_hash) ==
    LET i == FirstIndex(password_hash, Part("$"))
    IN  IF i = 0 THEN FALSE
        ELSE LET salt == SubSeq(password_hash, 1, i - 1)
                 stored_digest == SubSeq(password_hash, i + 1, Len(password_hash))
             IN  <<hash_with_salt(password, salt)>> = stored_digest

\* the text a form field or a stored column holds, part by part
Text(s) == IF s = "" THEN <<>> ELSE <<Part(s)>>

\* the users table at start: alice and bob signed up here, carol's row was
\* written by an earlier release that stored an unsalted digest
DashTenants ==
    { [username |-> "alice", api_key |-> "kA",
       password_hash |-> hash_password(Text("secret1"), Text("s0"))],
      [username |-> "bob", api_key |-> "kB",
       password_hash |-> hash_password(Text("hunter22"), Text("s0"))],
      [username |-> "carol", api_key |-> "kC",
       password_hash |-> <<Sha256(Text("secret1"))>>] }

\* the values secrets.token_hex(16) and secrets.token_urlsafe(32) return
Salts == {"s1"}

ApiKeys == {"kA", "kD"}

\* what is typed into the login form: <<username, password>>
LoginForms ==
    { <<"alice", "secret1">>, <<"alice", "hunter22">>, <<"carol", "secret1">>,
      <<"dave", "secret1">>, <<"", "secret1">>, <<"alice", "">> }

\* what is typed into the sign-up form: <<username, password, confirm>>
SignupForms ==
    { <<"alice", "secret1", "secret1">>, <<"dave", "secret1", "secret1">>,
      <<"dave", "abc", "abc">>, <<"dave", "secret1", "hunter22">>,
      <<"", "secret1", "secret1">>, <<"erin", "secret1", "secret1">> }

\* a faulty variant: the lookup finds nobody
get_user_by_username_none(us, username) == NoUser

\* queries.py get_user_by_username
get_user_by_username(us, username) ==
    LET hit == {u \in us : u.username = username}
    IN  IF hit = {} THEN NoUser ELSE CHOOSE u \in hit : TRUE

\* queries.py get_transaction_by_id; NoRow stands for None
get_transaction_by_id(rows, transaction_id) ==
    LET hit == {x \in rows : x.transaction_id = transaction_id}
    IN  IF hit = {} THEN NoRow ELSE CHOOSE x \in hit : TRUE

\* len() of the passwords typed
PasswordLen(s) ==
    CASE s = "" -> 0
      [] s = "abc" -> 3
      [] s = "secret1" -> 7
      [] OTHER -> 8

\* the users table: username unique, api_key unique
UserUniqueViolation(row, us) ==
    \E u \in us : u.username = row.username \/ u.api_key = row.api_key

\* queries.py create_user: the User row added
create_user(username, password_hash, api_key) ==
    [username |-> username, password_hash |-> password_hash, api_key |-> api_key]

\* a faulty variant: the flush of a User row never raises
FlushUserOk(row, us) == "ok"

\* session.flush() in create_user: what the INSERT raises, or "ok"
FlushUser(row, us) ==
    IF \E u \in us : u.username = row.username THEN "IntegrityError: users.username"
    ELSE IF UserUniqueViolation(row, us) THEN "IntegrityError: users.api_key"
    ELSE "ok"

\* a faulty variant: the tables are dropped and created again
init_db_recreate(rows) == {}

\* db init_db: create_all creates the tables that are missing and
\* _ensure_additional_columns adds the columns that are missing; the rows
\* stored keep every field they have
init_db(rows) == rows

\* dashboard.py _set_current_user: what st.session_state["user"] holds
SessionUser(user) == [username |-> user.username, api_key |-> user.api_key]

\* a faulty variant: the detail view shows whatever row the lookup found
TransactionDetailAny(transaction, user) ==
    IF transaction = NoRow THEN [view |-> "warning:Transaction not found"]
    ELSE [view |-> "detail", transaction |-> transaction]

\* dashboard.py _render_transaction_detail after the lookup: the warning, or
\* the page with the fields of the row
TransactionDetail(transaction, user) ==
    IF transaction = NoRow \/ transaction.api_key # user.api_key
    THEN [view |-> "warning:Transaction not found"]
    ELSE [view |-> "detail", transaction |-> transaction]

\* the transaction ids a browser may ask the detail view for
DetailIds == {"t1", "t2", "t9"}

\* a browser session: where its script is, the form it submitted, the user
\* in st.session_state, the User row its store session has flushed, and the
\* page it was shown last
NoForm == <<>>

NoPage == [view |-> NoValue]

ClosedBrowser ==
    [pc |-> "closed", form |-> NoForm, user |-> NoUser, row |-> NoUser,
     page |-> NoPage]

\* a page that is one message
Message(op, text) == [view |-> op, text |-> text]

\* the User rows flushed by the store sessions of the other browsers
PendingUsersOfOthers(b) ==
    {req[c].row : c \in {c \in Browsers \ {b} : req[c].pc = "flushed"}}

DashInit ==
    /\ users = DashTenants
    /\ committed = {}
    /\ req = [b \in Browsers |-> ClosedBrowser]
    /\ now = 0
    /\ dirtyReads = {}
    /\ teardown = "before_response"
    /\ nin = Special("none", 0)
    /\ nout = NotCalled
    /\ settings = SettingsCurrency
    /\ snap = NoSnap

\* main() of a new browser session: ensure_database_ready runs init_db, and
\* with no user in the session the login and sign-up forms are rendered
DashOpen(b) ==
    /\ req[b].pc = "closed"
    /\ committed' = init_db(committed)
    /\ req' = [req EXCEPT ![b] = [@ EXCEPT !.pc = "auth", !.page = Message("auth", "forms")]]
    /\ UNCHANGED <<users, now, dirtyReads, teardown, nin, nout, settings, snap>>

\* the login form submitted: the whole handler, whose store session only
\* reads
Login(b) ==
    /\ req[b].pc = "auth"
    /\ \E f \in LoginForms :
         LET username == f[1]
             password == f[2]
             user == get_user_by_username(Visible(users, PendingUsersOfOthers(b)), username)
             q == [req[b] EXCEPT !.form = f]
         IN  req' = [req EXCEPT ![b] =
               IF ~Truthy(username) \/ ~Truthy(password)
               THEN [q EXCEPT !.page = Message("login", "Enter both username and password.")]
               ELSE IF user = NoUser \/ ~verify_password(Text(password), user.password_hash)
               THEN [q EXCEPT !.page = Message("login", "Invalid credentials.")]
               ELSE [q EXCEPT !.pc = "home", !.user = SessionUser(user),
                              !.page = Message("login", "Logged in")]]
    /\ users' = Commit(users, {})
    /\ UNCHANGED <<committed, now, dirtyReads, teardown, nin, nout, settings, snap>>

\* the sign-up form submitted: the checks of the form, then the existence
\* check inside session_scope; a taken username ends the handler, with a
\* rollback and the commit of session_scope
SignupCheck(b) ==
    /\ req[b].pc = "auth"
    /\ \E f \in SignupForms :
         LET username == f[1]
             password == f[2]
             confirm == f[3]
             existing == get_user_by_username(Visible(users, PendingUsersOfOthers(b)), username)
             q == [req[b] EXCEPT !.form = f]
         IN  req' = [req EXCEPT ![b] =
               IF ~Truthy(username) \/ ~Truthy(password)
               THEN [q EXCEPT !.page = Message("signup", "Username and password are required.")]
               ELSE IF password # confirm
               THEN [q EXCEPT !.page = Message("signup", "Passwords do not match.")]
               ELSE IF PasswordLen(password) < 6
               THEN [q EXCEPT !.page = Message("signup", "Use a password with at least 6 characters.")]
               ELSE IF existing # NoUser
               THEN [q EXCEPT !.page = Message("signup", "Username already taken.")]
               ELSE [q EXCEPT !.pc = "checked", !.page = NoPage]]
    /\ users' = Commit(Rollback(users, {}), {})
    /\ UNCHANGED <<committed, now, dirtyReads, teardown, nin, nout, settings, snap>>

\* sign-up after the check: hash_password, generate_api_key and create_user
\* with its flush; an IntegrityError leaves the with block through
\* session_scope, which rolls back and raises it
SignupCreate(b) ==
    /\ req[b].pc = "checked"
    /\ \E salt \in Salts, api_key \in ApiKeys :
         LET password_hash == hash_password(Text(req[b].form[2]), Text(salt))
             row == create_user(req[b].form[1], password_hash, api_key)
         IN  \* an INSERT that meets the uncommitted row of another session
             \* with the same key waits for that session to end, and fails
             \* with OperationalError when the store gives up waiting
             IF UserUniqueViolation(row, PendingUsersOfOthers(b))
             THEN req' = [req EXCEPT ![b] =
                            [@ EXCEPT !.pc = "auth",
                                      !.page = Message("signup", "OperationalError")]]
             ELSE IF FlushUser(row, users) = "ok"
             THEN req' = [req EXCEPT ![b] = [@ EXCEPT !.pc = "flushed", !.row = row]]
             ELSE req' = [req EXCEPT ![b] =
                            [@ EXCEPT !.pc = "auth",
                                      !.page = Message("signup", FlushUser(row, users))]]
    /\ users' = Rollback(users, {})
    /\ UNCHANGED <<committed, now, dirtyReads, teardown, nin, nout, settings, snap>>

\* session_scope at the end of the with block of sign-up: commit and
\* _set_current_user, or rollback and raise
SignupCommit(b) ==
    /\ req[b].pc = "flushed"
    /\ \E ok \in BOOLEAN :
         IF ok
         THEN /\ users' = Commit(users, {req[b].row})
              /\ req' = [req EXCEPT ![b] =
                           [@ EXCEPT !.pc = "home", !.user = SessionUser(req[b].row),
                                     !.row = NoUser,
                                     !.page = Message("signup", "Account created!")]]
         ELSE /\ users' = Rollback(users, {req[b].row})
              /\ req' = [req EXCEPT ![b] =
                           [@ EXCEPT !.pc = "auth", !.row = NoUser,
                                     !.page = Message("signup", "OperationalError")]]
    /\ UNCHANGED <<committed, now, dirtyReads, teardown, nin, nout, settings, snap>>

\* _logout: the user is removed from the session
Logout(b) ==
    /\ req[b].pc = "home"
    /\ req' = [req EXCEPT ![b] =
                 [@ EXCEPT !.pc = "auth", !.user = NoUser, !.form = NoForm,
                           !.page = Message("auth", "forms")]]
    /\ UNCHANGED <<users, committed, now, dirtyReads, teardown, nin, nout, settings, snap>>

\* the detail view of a logged-in user for a transaction id
DashDetail(b) ==
    /\ req[b].pc = "home"
    /\ \E tid \in DetailIds :
         LET transaction == get_transaction_by_id(Visible(committed, {}), tid)
         IN  req' = [req EXCEPT ![b] =
                       [@ EXCEPT !.form = <<tid>>,
                                 !.page = TransactionDetail(transaction, req[b].user)]]
    /\ committed' = Commit(committed, {})
    /\ UNCHANGED <<users, now, dirtyReads, teardown, nin, nout, settings, snap>>

\* the dashboard view of a logged-in user: load_snapshot with the api_key of
\* the session
DashLoad(b) ==
    /\ req[b].pc = "home"
    /\ req' = [req EXCEPT ![b] =
                 [@ EXCEPT !.form = NoForm,
                           !.page = [view |-> "dashboard",
                                     snapshot |-> LoadSnapshot(Visible(committed, {}),
                                                               req[b].user.api_key, now)]]]
    /\ committed' = Commit(committed, {})
    /\ UNCHANGED <<users, now, dirtyReads, teardown, nin, nout, settings, snap>>

\* a whole POST /transactions request of a tenant, run alone
DashIngest ==
    /\ Cardinality(committed) < DashMaxRows
    /\ \E u \in users :
         LET p == [name |-> "Ada", price |-> P_1999, currency |-> NoValue,
                   status |-> NoValue]
             amt == amount_to_cents(Parsed(p).price)
             n == Cardinality(committed) + 1
             row == NewTransaction(u.api_key, Parsed(p), amt, AggTxId(n), now, n)
         IN  /\ TransactionCreate(p)
             /\ Flush(row, amt, committed) = "ok"
             /\ committed' = Commit(committed, {row})
    /\ UNCHANGED <<users, req, now, dirtyReads, teardown, nin, nout, settings, snap>>

TenantNext ==
    \/ \E b \in Browsers : DashOpen(b)
    \/ \E b \in Browsers : Login(b)
    \/ \E b \in Browsers : SignupCheck(b)
    \/ \E b \in Browsers : SignupCreate(b)
    \/ \E b \in Browsers : SignupCommit(b)
    \/ \E b \in Browsers : Logout(b)

TenantSpec == DashInit /\ [][TenantNext]_vars

\* the browser of ViewSpec
Viewer == MinOf(Browsers)

ViewNext ==
    \/ DashOpen(Viewer)
    \/ Login(Viewer)
    \/ SignupCheck(Viewer)
    \/ SignupCreate(Viewer)
    \/ SignupCommit(Viewer)
    \/ Logout(Viewer)
    \/ DashDetail(Viewer)
    \/ DashLoad(Viewer)
    \/ DashIngest

ViewSpec == DashInit /\ [][ViewNext]_vars

(***************************************************************************)
(* The steps of one POST /transactions request in the order the framework  *)
(* takes them for the route of create_transaction: the body is read and    *)
(* decoded, the dependencies are resolved, the decoded body is validated   *)
(* against TransactionCreate, and the handler runs.  In OrderSpec req[1]   *)
(* holds the request in progress, one request at a time.                   *)
(***************************************************************************)

\* most rows the store holds in OrderSpec
OrdMaxRows == 2

OrdPayloads ==
    [name : {"Ada", ""}, price : {P_1999, P_zero, P_neg},
     currency : PayloadCurrencies, status : PayloadStatuses]

\* request bodies: bytes that are not JSON, or the JSON of a payload
OrdBodies ==
    {[json |-> FALSE, payload |-> NoPayload]}
       \cup {[json |-> TRUE, payload |-> p] : p \in OrdPayloads}

\* a request of OrderSpec: its position, inputs, the tenant it resolved to,
\* whether _amount_to_cents was called, whether its session flushed a row,
\* and the response
OrdIdle ==
    [pc |-> "idle", token |-> NoValue, body |-> [json |-> FALSE, payload |-> NoPayload],
     user |-> NoValue, reached |-> FALSE, flushed |-> FALSE, outcome |-> NoValue]

OrdDone(q, outcome) == [q EXCEPT !.pc = "done", !.outcome = outcome]

OrdInit ==
    /\ users = Tenants
    /\ committed = {}
    /\ req = [r \in {1} |-> OrdIdle]
    /\ now = 0
    /\ dirtyReads = {}
    /\ teardown = "before_response"
    /\ nin = Special("none", 0)
    /\ nout = NotCalled
    /\ settings = SettingsCurrency
    /\ snap = NoSnap

\* a request arrives, after the one before it was answered
OrdReceive ==
    /\ req[1].pc \in {"idle", "done"}
    /\ \E token \in Tokens, body \in OrdBodies :
         req' = [req EXCEPT ![1] =
                   [OrdIdle EXCEPT !.pc = "received", !.token = token, !.body = body]]
    /\ UNCHANGED <<users, committed, now, dirtyReads, teardown, nin, nout, settings, snap>>

\* the framework reads the body that the payload parameter declares and
\* decodes it as JSON; bytes that are not JSON end the request with 422
OrdParseBody ==
    /\ req[1].pc = "received"
    /\ req' = [req EXCEPT ![1] =
                 IF req[1].body.json THEN [@ EXCEPT !.pc = "parsed"]
                 ELSE OrdDone(@, "422")]
    /\ UNCHANGED <<users, committed, now, dirtyReads, teardown, nin, nout, settings, snap>>

\* the dependencies: get_db, the bearer scheme and require_api_key
OrdDepends ==
    /\ req[1].pc = "parsed"
    /\ \E res \in require_api_key(users, req[1].token) :
         req' = [req EXCEPT ![1] =
                   IF res.kind = "http" THEN OrdDone(@, res.code)
                   ELSE [@ EXCEPT !.pc = "authed", !.user = res.user.api_key]]
    /\ committed' = Rollback(committed, {})
    /\ UNCHANGED <<users, now, dirtyReads, teardown, nin, nout, settings, snap>>

\* the decoded body is validated against TransactionCreate, and the handler
\* runs to its response, with the commit of get_db
OrdHandle ==
    /\ req[1].pc = "authed"
    /\ LET p == req[1].body.payload
           amt == amount_to_cents(Parsed(p).price)
           n == Cardinality(committed) + 1
           row == NewTransaction(req[1].user, Parsed(p), amt, AggTxId(n), now, n)
       IN  IF ~TransactionCreate(p)
           THEN /\ req' = [req EXCEPT ![1] = OrdDone(@, "422")]
                /\ committed' = Rollback(committed, {})
           ELSE /\ amt.kind = "int"
                /\ Flush(row, amt, committed) = "ok"
                /\ Cardinality(committed) < OrdMaxRows
                /\ committed' = Commit(committed, {row})
                /\ req' = [req EXCEPT ![1] =
                             OrdDone([@ EXCEPT !.reached = TRUE, !.flushed = TRUE], "201")]
    /\ UNCHANGED <<users, now, dirtyReads, teardown, nin, nout, settings, snap>>

OrdNext == OrdReceive \/ OrdParseBody \/ OrdDepends \/ OrdHandle

OrderSpec == OrdInit /\ [][OrdNext]_vars

(***************************************************************************)
(* load_snapshot statement by statement while requests commit: the session *)
(* of the reader executes the four aggregate statements of get_summary,    *)
(* its latest statement, the statement of get_daily_volume and the one of  *)
(* get_status_breakdown, each against the rows committed at that moment.   *)
(* In IsoSpec snap holds the reader: its position, what its statements     *)
(* returned, and the states the store went through since it began.         *)
(***************************************************************************)

\* most rows the store holds in IsoSpec
IsoMaxRows == 2

\* get_summary: amount_stmt, count_stmt, distinct_stmt, success_stmt and
\* latest_stmt, each the scalar its SELECT returns
amount_stmt(rows, api_key) == SumAmount(WhereApiKey(rows, api_key))

count_stmt(rows, api_key) == Cardinality(WhereApiKey(rows, api_key))

distinct_stmt(rows, api_key) ==
    Cardinality({x.customer_name : x \in WhereApiKey(rows, api_key)})

success_stmt(rows, api_key) ==
    Cardinality({x \in WhereApiKey(rows, api_key) : x.status = "success"})

latest_stmt(rows, api_key) ==
    LET latest == {x.created_at : x \in WhereApiKey(rows, api_key)}
    IN  IF latest = {} THEN {} ELSE {MaxOf(latest)}

\* get_summary: the dict built from the results of its statements
summary_dict(total_amount_cents, total_transactions, distinct_customers, success_count, latest) ==
    [total_volume_cents |-> total_amount_cents,
     total_transactions |-> total_transactions,
     unique_customers |-> distinct_customers,
     average_ticket_cents |->
         IF total_transactions # 0
         THEN TruncDiv(total_amount_cents, total_transactions) ELSE 0,
     success_rate |->
         IF total_transactions # 0
         THEN Ratio(success_count, total_transactions) ELSE <<0, 1>>,
     latest_transaction_at |-> latest]

\* the statements of load_snapshot in the order they are executed
IsoOrder == <<"amount", "count", "distinct", "success", "latest", "daily", "statuses">>

IsoIdle ==
    [pc |-> 0, key |-> NoValue, total_amount_cents |-> 0, total_transactions |-> 0,
     distinct_customers |-> 0, success_count |-> 0, summary |-> NoValue,
     daily |-> <<>>, statuses |-> <<>>, stores |-> {}]

IsoInit ==
    /\ users = Tenants
    /\ committed = {}
    /\ req = [r \in Reqs |-> IdleReq]
    /\ now = 0
    /\ dirtyReads = {}
    /\ teardown = "before_response"
    /\ nin = Special("none", 0)
    /\ nout = NotCalled
    /\ settings = SettingsCurrency
    /\ snap = IsoIdle

\* a whole POST /transactions request of a tenant, committed
IsoIngest ==
    /\ Cardinality(committed) < IsoMaxRows
    /\ \E u \in users, st \in {NoValue, "FAILED"} :
         LET p == [name |-> "Ada", price |-> P_1999, currency |-> NoValue,
                   status |-> st]
             amt == amount_to_cents(Parsed(p).price)
             n == Cardinality(committed) + 1
             row == NewTransaction(u.api_key, Parsed(p), amt, AggTxId(n), now, n)
         IN  /\ TransactionCreate(p)
             /\ Flush(row, amt, committed) = "ok"
             /\ committed' = Commit(committed, {row})
    /\ snap' = IF snap.pc \in 1..Len(IsoOrder)
               THEN [snap EXCEPT !.stores = @ \cup {committed'}]
               ELSE snap
    /\ UNCHANGED <<users, req, now, dirtyReads, teardown, nin, nout, settings>>

\* load_snapshot is called for a tenant: session_scope opens the session
IsoBegin ==
    /\ snap.pc \in {0, Len(IsoOrder) + 1}
    /\ \E u \in users :
         snap' = [IsoIdle EXCEPT !.pc = 1, !.key = u.api_key, !.stores = {committed}]
    /\ UNCHANGED <<users, committed, req, now, dirtyReads, teardown, nin, nout, settings>>

\* the session executes its next statement; after the last statement of
\* get_summary the dict is built, and after the last statement of
\* load_snapshot session_scope commits
IsoExecute ==
    /\ snap.pc \in 1..Len(IsoOrder)
    /\ LET rows == Visible(committed, {})
           stmt == IsoOrder[snap.pc]
           q == [snap EXCEPT !.pc = @ + 1]
       IN  snap' =
             CASE stmt = "amount" ->
                    [q EXCEPT !.total_amount_cents = amount_stmt(rows, snap.key)]
               [] stmt = "count" ->
                    [q EXCEPT !.total_transactions = count_stmt(rows, snap.key)]
               [] stmt = "distinct" ->
                    [q EXCEPT !.distinct_customers = distinct_stmt(rows, snap.key)]
               [] stmt = "success" ->
                    [q EXCEPT !.success_count = success_stmt(rows, snap.key)]
               [] stmt = "latest" ->
                    [q EXCEPT !.summary =
                        summary_dict(snap.total_amount_cents, snap.total_transactions,
                                     snap.distinct_customers, snap.success_count,
                                     latest_stmt(rows, snap.key))]
               [] stmt = "daily" ->
                    [q EXCEPT !.daily = get_daily_volume(rows, 14, snap.key, now)]
               [] stmt = "statuses" ->
                    [q EXCEPT !.statuses = get_status_breakdown(rows, snap.key)]
    /\ committed' = IF snap.pc = Len(IsoOrder) THEN Commit(committed, {}) ELSE committed
    /\ UNCHANGED <<users, req, now, dirtyReads, teardown, nin, nout, settings>>

IsoNext == IsoIngest \/ IsoBegin \/ IsoExecute

IsoSpec == IsoInit /\ [][IsoNext]_vars

(***************************************************************************)
(* The life of a store session under get_db (src/src/api.py) and under     *)
(* session_scope (src/src/db/__init__.py): try: yield, commit; except      *)
(* Exception: rollback, raise; finally: close.  In SessSpec req holds the  *)
(* sessions, each with the way its body ended.                             *)
(***************************************************************************)

\* number of sessions, which may be open at the same time
NumSessions == 2

Sessions == 1..NumSessions

\* how the code between the yield and the commit can end: whether it flushed
\* a row, whether a flush of its own failed and left the session inactive,
\* how often it called session.rollback() itself, and the exception it let
\* escape (NoValue when it returned)
BodyEnd(flushed, inactive, rollbacks, exc) ==
    [flushed |-> flushed, inactive |-> inactive, rollbacks |-> rollbacks, exc |-> exc]

\* create_transaction and require_api_key under get_db: the handler returns
\* with its row flushed; require_api_key or _amount_to_cents raises
\* HTTPException; the flush raises another error; the flush raises
\* IntegrityError, and the handler rolls back and raises HTTPException
GetDbBodies ==
    { BodyEnd(TRUE, FALSE, 0, NoValue),
      BodyEnd(FALSE, FALSE, 0, "HTTPException"),
      BodyEnd(FALSE, TRUE, 0, "OverflowError"),
      BodyEnd(FALSE, FALSE, 1, "HTTPException") }

\* the with blocks under session_scope: test_console_submit returns with its
\* row flushed, or after it caught an exception raised before the flush or
\* by the flush; load_snapshot and login only read; sign-up rolls back and
\* returns when the username is taken, and lets the IntegrityError of
\* create_user escape
SessionScopeBodies ==
    { BodyEnd(TRUE, FALSE, 0, NoValue),
      BodyEnd(FALSE, FALSE, 0, NoValue),
      BodyEnd(FALSE, TRUE, 0, NoValue),
      BodyEnd(FALSE, FALSE, 1, NoValue),
      BodyEnd(FALSE, TRUE, 0, "IntegrityError") }

Bodies(opener) ==
    IF opener = "get_db" THEN GetDbBodies ELSE SessionScopeBodies

\* a faulty variant: the commit is attempted however the body ended
AfterYieldCommit(exc) == "commit"

\* try: yield session; session.commit() / except Exception: where control
\* goes when the body has ended
AfterYield(exc) == IF exc = NoValue THEN "commit" ELSE "except"

\* session.commit(): the exceptions it can raise, NoValue for success; on a
\* session that a failed flush left inactive it raises PendingRollbackError
CommitResults(inactive) ==
    IF inactive THEN {"PendingRollbackError"} ELSE {NoValue, "OperationalError"}

\* a session not opened yet: its position, what opened it, how its body
\* ended, the row it flushed, the exception in flight, the calls of commit
\* and rollback made on it, whether it is closed, and the exception that
\* reached the caller
NoSession ==
    [pc |-> "none", opener |-> NoValue, body |-> BodyEnd(FALSE, FALSE, 0, NoValue),
     row |-> NoRow, exc |-> NoValue, commits |-> 0, rollbacks |-> 0,
     closed |-> FALSE, raised |-> NoValue]

SessInit ==
    /\ users = Tenants
    /\ committed = {}
    /\ req = [s \in Sessions |-> NoSession]
    /\ now = 0
    /\ dirtyReads = {}
    /\ teardown = "before_response"
    /\ nin = Special("none", 0)
    /\ nout = NotCalled
    /\ settings = SettingsCurrency
    /\ snap = NoSnap

\* session = SessionFactory() or get_session(engine), and the yield
SessOpen(s) ==
    /\ req[s].pc = "none"
    /\ \E opener \in {"get_db", "session_scope"} :
         req' = [req EXCEPT ![s] = [@ EXCEPT !.pc = "body", !.opener = opener]]
    /\ UNCHANGED <<users, committed, now, dirtyReads, teardown, nin, nout, settings, snap>>

\* the row the body of session s adds and flushes
SessRow(s) ==
    [NoRow EXCEPT !.transaction_id = AggTxId(s), !.api_key = "kA",
                  !.customer_name = "Ada", !.amount_cents = 1999,
                  !.currency = "USD", !.status = "success", !.req = s]

\* the body runs to its end
SessBody(s) ==
    /\ req[s].pc = "body"
    /\ \E b \in Bodies(req[s].opener) :
         /\ req' = [req EXCEPT ![s] =
                      [@ EXCEPT !.pc = AfterYield(b.exc), !.body = b,
                                !.row = IF b.flushed THEN SessRow(s) ELSE NoRow,
                                !.exc = b.exc, !.rollbacks = b.rollbacks]]
         /\ committed' = IF b.rollbacks > 0 THEN Rollback(committed, {})
                         ELSE committed
    /\ UNCHANGED <<users, now, dirtyReads, teardown, nin, nout, settings, snap>>

\* session.commit()
SessCommit(s) ==
    /\ req[s].pc = "commit"
    /\ \E e \in CommitResults(req[s].body.inactive) :
         IF e = NoValue
         THEN /\ committed' = Commit(committed, {req[s].row} \ {NoRow})
              /\ req' = [req EXCEPT ![s] =
                           [@ EXCEPT !.pc = "finally", !.commits = @ + 1]]
         ELSE /\ UNCHANGED committed
              /\ req' = [req EXCEPT ![s] =
                           [@ EXCEPT !.pc = "except", !.commits = @ + 1, !.exc = e]]
    /\ UNCHANGED <<users, now, dirtyReads, teardown, nin, nout, settings, snap>>

\* except Exception: session.rollback(); raise
SessExcept(s) ==
    /\ req[s].pc = "except"
    /\ committed' = Rollback(committed, {req[s].row} \ {NoRow})
    /\ req' = [req EXCEPT ![s] = [@ EXCEPT !.pc = "finally", !.rollbacks = @ + 1]]
    /\ UNCHANGED <<users, now, dirtyReads, teardown, nin, nout, settings, snap>>

\* finally: session.close(); the exception in flight reaches the caller
SessFinally(s) ==
    /\ req[s].pc = "finally"
    /\ req' = [req EXCEPT ![s] =
                 [@ EXCEPT !.pc = "done", !.closed = TRUE, !.raised = req[s].exc]]
    /\ UNCHANGED <<users, committed, now, dirtyReads, teardown, nin, nout, settings, snap>>

SessStep(s) == SessBody(s) \/ SessCommit(s) \/ SessExcept(s) \/ SessFinally(s)

SessNext ==
    \/ \E s \in Sessions : SessOpen(s)
    \/ \E s \in Sessions : SessBody(s)
    \/ \E s \in Sessions : SessCommit(s)
    \/ \E s \in Sessions : SessExcept(s)
    \/ \E s \in Sessions : SessFinally(s)

\* the code of an opened session runs on: handlers are synchronous and the
\* calls on the session return or raise
SessSpec ==
    /\ SessInit
    /\ [][SessNext]_vars
    /\ \A s \in Sessions : WF_vars(SessStep(s))

(***************************************************************************)
(* Properties.                                                             *)
(***************************************************************************)

\* the committed rows request r inserted
RowsBy(r) == {x \in committed : x.req = r}

\* a token that is missing or matches no tenant
Unmatched(token) == \A u \in users : u.api_key # token

PostDone(r) == req[r].handler = "post" /\ req[r].pc = "done"

\* the request was answered as a success
Succeeded(r) ==
    /\ req[r].pc = "done"
    /\ req[r].outcome = IF req[r].handler = "post" THEN "201" ELSE "page:Success"

\* C1: every stored transaction has amount_cents > 0, whatever path
\* inserted it (POST /transactions with a tiny price, POST /test)
C1_AmountPositive == \A x \in committed : x.amount_cents > 0

RejectOutcomes(handler, token) ==
    IF handler = "post"
    THEN IF token = NoValue THEN {"401", "403"} ELSE {"401"}
    ELSE IF token = NoValue THEN {"422"} ELSE {"page:Invalid API key"}

C3_OneRowOrNone ==
    \A r \in Reqs :
        PostDone(r) =>
            IF req[r].outcome = "201"
            THEN RowsBy(r) = {req[r].row} /\ req[r].row # NoRow
            ELSE RowsBy(r) = {}

\* C6: an insert whose transaction_id is already in the store ends with the
\* unique-constraint error (409 on POST /transactions) and leaves the store
\* as it was
C6_DuplicateRejected ==
    [][\A r \in Reqs :
          (/\ req[r].pc = "authed"
           /\ req'[r].pc # "authed"
           /\ req'[r].tid \in IdsOf(committed)) =>
              /\ req'[r].pc = "done"
              /\ req'[r].exc = "IntegrityError"
              /\ req[r].handler = "post" => req'[r].outcome = "409"
              /\ committed' = committed
              /\ \A x \in committed' : x.req # r]_vars

\* a POST /transactions was answered 409 for the id of a stored row
C6_Witness ==
    \E r \in Reqs :
        /\ PostDone(r) /\ req[r].outcome = "409"
        /\ \E x \in committed : x.transaction_id = req[r].tid /\ x.req # r

\* C7: no two stored rows share a transaction_id
C7_UniqueTransactionId ==
    \A x, y \in committed : x.transaction_id = y.transaction_id => x = y

\* two requests have each stored a row
C7_Witness ==
    \E x, y \in committed : x.req # y.req /\ x.transaction_id # y.transaction_id

\* the fields of r's row are those of r's own request
OwnFields(r, x) ==
    /\ x.transaction_id = req[r].tid
    /\ x.api_key = req[r].token
    /\ x.customer_name = req[r].payload.name
    /\ x.amount_cents = Stored(amount_to_cents(req[r].payload.price))

\* C8: once all requests have ended, the store holds exactly one row per
\* successful request, carrying that request's fields, none for the others,
\* and no reader was given a row that was rolled back afterwards
C8_AtomicInserts ==
    (\A r \in Reqs : req[r].pc = "done") =>
        /\ \A r \in Reqs :
              IF Succeeded(r)
              THEN \E x \in committed : RowsBy(r) = {x} /\ OwnFields(r, x)
              ELSE RowsBy(r) = {}
        /\ dirtyReads \subseteq committed

\* C9: a price <= 0 is answered 422 before the normaliser is called and
\* before a row is built, on every ingestion path
C9_NonPositiveRejected ==
    \A r \in Reqs :
        (req[r].payload # NoPayload /\ ~IsPositive(req[r].payload.price)) =>
            /\ ~req[r].reached
            /\ req[r].row = NoRow /\ RowsBy(r) = {}
            /\ req[r].pc = "done" /\ req[r].outcome = "422"

\* C10: a price that passed validation either gives an amount within the
\* signed 64-bit range, stored exactly, or ends the request with 422 and no
\* row; there is no other outcome
C10_Int64OrInvalidAmount ==
    \A r \in Reqs :
        (req[r].pc = "done" /\ req[r].reached) =>
            LET amt == amount_to_cents(req[r].payload.price)
            IN  IF amt.kind = "int" /\ FitsInt64(amt)
                THEN \A x \in RowsBy(r) : x.amount_cents = ToInt(amt)
                ELSE req[r].outcome = "422" /\ RowsBy(r) = {}

\* C4: the summary, the daily volume and the status breakdown asked with a
\* tenant's key are those of the tenant's own rows alone, whatever rows of
\* other tenants the store holds
C4_TenantIsolation ==
    \A u \in users :
        LET own == {x \in committed : x.api_key = u.api_key}
        IN  /\ get_summary(committed, u.api_key) = get_summary(own, u.api_key)
            /\ get_status_breakdown(committed, u.api_key)
                  = get_status_breakdown(own, u.api_key)
            /\ \A days \in WindowDays :
                  get_daily_volume(committed, days, u.api_key, now)
                      = get_daily_volume(own, days, u.api_key, now)

\* the store holds rows of two tenants, on different days, inside the window
C4_Witness ==
    \E x, y \in committed :
        /\ x.api_key = "kA" /\ y.api_key = "kB"
        /\ Day(x.created_at) # Day(y.created_at)
        /\ Len(get_daily_volume(committed, 14, "kA", now)) = 1

\* C5: for every valid price p > 0 the normaliser returns the integer
\* round_half_up(p * 100)
C5_RoundHalfUp ==
    (nout # NotCalled /\ IsPositive(nin)) =>
        nout = RoundHalfUpTimes100(nin)

\* C11: a POST /transactions that omits currency stores (and returns) the
\* PAYMENTS_CURRENCY setting uppercased, whatever the setting is
C11_DefaultFromSetting ==
    \A r \in Reqs :
        (/\ req[r].handler = "post"
         /\ req[r].row # NoRow
         /\ req[r].payload.currency = NoValue) =>
            req[r].row.currency = Upper(settings)

\* a string holds a lowercase letter
HasLower(s) == s \in {"usd", "eur", "failed", "success", "Success", "unknown"}

\* a string holds an uppercase letter
HasUpper(s) == s \in {"USD", "EUR", "EURO", "FAILED", "Success"}

\* a string with its case distinctions removed
CaseFold(s) ==
    CASE s \in {"usd", "USD"} -> "usd"
      [] s \in {"eur", "EUR"} -> "eur"
      [] s \in {"failed", "FAILED"} -> "failed"
      [] s \in {"success", "Success"} -> "success"
      [] OTHER -> s

\* C12: a row created by POST /transactions has the request's currency in
\* uppercase and the request's status in lowercase ("success" when the
\* request gives none); no stored currency holds a lowercase letter and no
\* stored status an uppercase letter
C12_CurrencyUpperStatusLower ==
    /\ \A r \in Reqs :
          (req[r].handler = "post" /\ req[r].row # NoRow) =>
              /\ req[r].row \in committed
              /\ req[r].payload.currency # NoValue =>
                    CaseFold(req[r].row.currency) = CaseFold(req[r].payload.currency)
              /\ CaseFold(req[r].row.status) =
                    IF req[r].payload.status = NoValue THEN "success"
                    ELSE CaseFold(req[r].payload.status)
    /\ \A x \in committed : ~HasLower(x.currency) /\ ~HasUpper(x.status)

\* a request with currency "usd" and status "FAILED" was stored
C12_Witness ==
    \E r \in Reqs :
        /\ req[r].handler = "post" /\ req[r].outcome = "201"
        /\ req[r].payload.currency = "usd" /\ req[r].payload.status = "FAILED"
        /\ req[r].row.currency = "USD" /\ req[r].row.status = "failed"
        /\ req[r].row \in committed

\* the committed rows of one tenant
OwnRows(api_key) == {x \in committed : x.api_key = api_key}

\* C14: with rows, success_rate is the number of the tenant's rows whose
\* status is exactly "success" over the number of its rows; it is 1 exactly
\* when all of them are and 0 exactly when none is
C14_SuccessRate ==
    \A u \in users :
        LET own == OwnRows(u.api_key)
            ok == {x \in own : x.status = "success"}
            rate == get_summary(committed, u.api_key).success_rate
        IN  own # {} =>
                /\ rate[2] > 0
                /\ rate[1] * Cardinality(own) = rate[2] * Cardinality(ok)
                /\ (rate[1] = rate[2]) <=> (ok = own)
                /\ (rate[1] = 0) <=> (ok = {})

\* a tenant has one successful and one failed row
C14_Witness ==
    /\ \E x, y \in OwnRows("kA") : x.status = "success" /\ y.status = "failed"
    /\ get_summary(committed, "kA").success_rate = <<1, 2>>

\* C15: the summary of a tenant without rows is all zeros, whatever rows
\* other tenants have
C15_EmptyTenant ==
    \A u \in users :
        OwnRows(u.api_key) = {} =>
            LET s == get_summary(committed, u.api_key)
            IN  /\ s.total_volume_cents = 0
                /\ s.total_transactions = 0
                /\ s.unique_customers = 0
                /\ s.average_ticket_cents = 0
                /\ s.success_rate = <<0, 1>>
                /\ s.latest_transaction_at = {}

\* one tenant has no rows and the other has rows with a non-zero total
C15_Witness ==
    /\ OwnRows("kB") = {}
    /\ \E x \in OwnRows("kA") : x.req # 0
    /\ get_summary(committed, "kA").total_volume_cents > 0
    /\ get_summary(committed, "kB").total_transactions = 0

\* C16: the daily volume over 14 days has no bucket for a day outside
\* [today - 13, today] and lists its buckets by strictly ascending day
C16_WindowAndOrder ==
    \A u \in users :
        LET dv == get_daily_volume(committed, 14, u.api_key, now)
        IN  /\ \A i \in DOMAIN dv :
                  Day(now) - 13 <= dv[i].day /\ dv[i].day <= Day(now)
            /\ \A i, j \in DOMAIN dv : i < j => dv[i].day < dv[j].day

\* a tenant has a row older than the window and two buckets inside it
C16_Witness ==
    /\ \E x \in OwnRows("kA") : Day(x.created_at) < Day(now) - 13
    /\ Len(get_daily_volume(committed, 14, "kA", now)) = 2

\* C17: each day of the window on which the tenant has rows has a bucket
\* with the sum and the number of all the tenant's rows of that day, and a
\* day without rows has none
C17_WholeDays ==
    \A u \in users : \A days \in WindowDays :
        LET dv == get_daily_volume(committed, days, u.api_key, now)
        IN  \A d \in (Day(now) - days + 1)..Day(now) :
                LET onDay == {x \in OwnRows(u.api_key) : Day(x.created_at) = d}
                    at == {i \in DOMAIN dv : dv[i].day = d}
                IN  IF onDay = {} THEN at = {}
                    ELSE \E i \in at :
                            /\ dv[i].transactions = Cardinality(onDay)
                            /\ dv[i].amount_cents = SumAmount(onDay)

\* C18: the status breakdown counts the tenant's rows per status, has no
\* key with count 0, and counts rows without a status together with the
\* rows whose status is "unknown"
C18_StatusBreakdown ==
    \A u \in users :
        LET own == OwnRows(u.api_key)
            b == get_status_breakdown(committed, u.api_key)
            under(l) == {x \in own : x.status = l \/ (l = "unknown" /\ x.status = NoValue)}
        IN  /\ DOMAIN b = {IF x.status = NoValue THEN "unknown" ELSE x.status : x \in own}
            /\ \A l \in DOMAIN b : b[l] = Cardinality(under(l)) /\ b[l] > 0

\* a tenant has a row without status and a row with status "unknown"
C18_Witness ==
    /\ \E x, y \in OwnRows("kA") : x.status = NoValue /\ y.status = "unknown"
    /\ OwnRows("kB") # {}
    /\ LET b == get_status_breakdown(committed, "kA")
       IN  "unknown" \in DOMAIN b /\ b["unknown"] = 2

\* C20: at the moment a POST /transactions of tenant T is answered 201, the
\* summary of T read by another session counts one transaction more and its
\* volume is higher by the stored amount, and the status breakdown and the
\* daily volume hold the row too
C20_Freshness ==
    [][\A r \in Reqs :
          (/\ req'[r].handler = "post"
           /\ req[r].outcome # "201"
           /\ req'[r].outcome = "201") =>
              LET k == req'[r].user
                  before == get_summary(Visible(committed, PendingOfOthers(0)), k)
                  after == get_summary(Visible(committed', PendingOfOthers(0)'), k)
                  b == get_status_breakdown(Visible(committed', PendingOfOthers(0)'), k)
                  dv == get_daily_volume(Visible(committed', PendingOfOthers(0)'), 14, k, now')
              IN  /\ after.total_transactions = before.total_transactions + 1
                  /\ after.total_volume_cents =
                        before.total_volume_cents + req'[r].row.amount_cents
                  /\ req'[r].row.status \in DOMAIN b
                  /\ \E i \in DOMAIN dv : dv[i].day = Day(req'[r].row.created_at)]_vars

C13_AverageTicket ==
    nout # NotCalled =>
        nout = PyInt(FALSE, DivSmall(nin.total.mag, nin.count).quot)

\* C21: a committed transaction stays in the store with every field
\* unchanged, whatever runs afterwards: ingestion, the dashboard and detail
\* views, login, sign-up and init_db neither update nor delete a row
C21_Immutable ==
    [][\A x \in committed : x \in committed']_vars

\* a tenant who signed up after start looks at a dashboard that counts a
\* committed transaction
C21_Witness ==
    /\ committed # {}
    /\ users # DashTenants
    /\ req[Viewer].page.view = "dashboard"
    /\ req[Viewer].page.snapshot.summary.total_transactions >= 1

\* the sign-up form of browser b is submitted in this step
SignupSubmitted(b) ==
    /\ req[b].pc = "auth"
    /\ req'[b] # req[b]
    /\ Len(req'[b].form) = 3

\* a sign-up form that passes the checks made before the store is asked
FormAccepted(f) ==
    /\ Truthy(f[1]) /\ Truthy(f[2])
    /\ f[2] = f[3]
    /\ PasswordLen(f[2]) >= 6

UsernamesOf(us) == {u.username : u \in us}

\* C22: a sign-up whose username the store already holds is answered
\* "Username already taken." and leaves the users table as it was, with
\* nobody logged in; the users table only ever changes by one new row with a
\* username that was not there, at the commit of a sign-up that is answered
\* "Account created!"; so no two tenants ever share a username
C22_SignupUnique ==
    /\ [](\A u, v \in users : u.username = v.username => u = v)
    /\ [][/\ \A b \in Browsers :
               (/\ SignupSubmitted(b)
                /\ FormAccepted(req'[b].form)
                /\ req'[b].form[1] \in UsernamesOf(users))
               => /\ req'[b].page = Message("signup", "Username already taken.")
                  /\ req'[b].user = NoUser
                  /\ users' = users
          /\ \A b \in Browsers :
               (req'[b] # req[b] /\ req'[b].page = Message("signup", "Account created!"))
               => /\ req[b].form[1] \notin UsernamesOf(users)
                  /\ \E row \in users' \ users :
                        /\ users' = users \cup {row}
                        /\ row.username = req[b].form[1]
                        /\ req'[b].user = SessionUser(row)
          /\ users' # users
               => \E b \in Browsers :
                     /\ req'[b].page = Message("signup", "Account created!")
                     /\ req'[b] # req[b]
                     /\ users \subseteq users'
                     /\ Cardinality(users') = Cardinality(users) + 1
         ]_vars

\* dave has signed up, and a later sign-up as dave was turned away
C22_Witness ==
    /\ "dave" \in UsernamesOf(users)
    /\ \E b \in Browsers :
          /\ req[b].page = Message("signup", "Username already taken.")
          /\ req[b].form[1] = "dave"

\* the login form of browser b is submitted in this step
LoginSubmitted(b) ==
    /\ req[b].pc = "auth"
    /\ req'[b] # req[b]
    /\ Len(req'[b].form) = 2

\* the spec's salted hash: hash = SHA256(salt || ":" || password), stored as
\* salt$hash; a stored value without the separator verifies nothing
Verifies(password, password_hash) ==
    \E i \in 1..Len(password_hash) :
       /\ password_hash[i] = Part("$")
       /\ \A j \in 1..(i - 1) : password_hash[j] # Part("$")
       /\ SubSeq(password_hash, i + 1, Len(password_hash))
            = <<Sha256(SubSeq(password_hash, 1, i - 1) \o <<Part(":")>> \o Text(password))>>

\* C23: a login with both fields filled sets the user of the session to
\* tenant U exactly when U has the username given and the password given
\* verifies against U's stored salt$hash; otherwise the answer is
\* "Invalid credentials." and the session has no user
C23_LoginIff ==
    [][\A b \in Browsers :
         (LoginSubmitted(b) /\ Truthy(req'[b].form[1]) /\ Truthy(req'[b].form[2]))
         => LET f == req'[b].form
                match == {u \in users : /\ u.username = f[1]
                                        /\ Verifies(f[2], u.password_hash)}
            IN  /\ users' = users
                /\ \A u \in match : /\ req'[b].user = SessionUser(u)
                                    /\ req'[b].pc = "home"
                /\ match = {} => /\ req'[b].user = NoUser
                                 /\ req'[b].pc = "auth"
                                 /\ req'[b].page = Message("login", "Invalid credentials.")
      ]_vars

\* alice is logged in, and another browser was refused as carol, whose stored
\* hash has no separator
C23_Witness ==
    \E b, c \in Browsers :
       /\ req[b].pc = "home" /\ req[b].user.username = "alice"
       /\ req[b].page = Message("login", "Logged in")
       /\ req[c].form = <<"carol", "secret1">>
       /\ req[c].page = Message("login", "Invalid credentials.")

\* C24: no two tenants have the same api_key, a tenant keeps the api_key it
\* was created with, and a bearer token resolves to at most one tenant, the
\* same one from then on
C24_ApiKeyPermanent ==
    /\ [](\A u, v \in users : u.api_key = v.api_key => u = v)
    /\ [](\A token \in Tokens \cup ApiKeys :
            Cardinality({u \in users : u.api_key = token}) <= 1)
    /\ [][/\ \A u \in users :
               \E v \in users' : v.username = u.username /\ v.api_key = u.api_key
          /\ \A token \in Tokens \cup ApiKeys :
               get_user_by_api_key(users, token) # NoUser
               => get_user_by_api_key(users', token) = get_user_by_api_key(users, token)
         ]_vars

\* a sign-up whose generated key was alice's was refused, and another
\* sign-up created dave with a key of his own
C24_Witness ==
    /\ \E u \in users : u.username = "dave" /\ u.api_key = "kD"
    /\ get_user_by_api_key(users, "kA").username = "alice"
    /\ \E b \in Browsers :
          /\ req[b].page = Message("signup", "IntegrityError: users.api_key")
          /\ req[b].form[1] = "erin"

\* the detail view of browser b is rendered in this step
DetailAsked(b) ==
    /\ req[b].pc = "home"
    /\ req'[b] # req[b]
    /\ Len(req'[b].form) = 1

\* C25: a logged-in tenant who asks the detail view for a transaction id of
\* another tenant gets the "not found" warning and no field of the row; a
\* detail page only ever shows a committed row of the session's tenant, and a
\* dashboard only the aggregates of the tenant's own rows
C25_ScopedLookup ==
    [][\A b \in Browsers :
         /\ DetailAsked(b)
            => LET found == {x \in committed : x.transaction_id = req'[b].form[1]}
               IN  /\ (\A x \in found : x.api_key # req[b].user.api_key)
                       => req'[b].page = [view |-> "warning:Transaction not found"]
                   /\ req'[b].page.view = "detail"
                       => /\ req'[b].page.transaction \in found
                          /\ req'[b].page.transaction.api_key = req[b].user.api_key
         /\ (req'[b] # req[b] /\ req'[b].page.view = "dashboard")
            => req'[b].page.snapshot
                 = LoadSnapshot({x \in committed : x.api_key = req[b].user.api_key},
                                req[b].user.api_key, now)
      ]_vars

\* alice asked for a transaction that bob owns and was shown the warning
C25_Witness ==
    /\ req[Viewer].user.username = "alice"
    /\ \E x \in committed : /\ x.api_key = "kB"
                            /\ req[Viewer].form = <<x.transaction_id>>
    /\ req[Viewer].page = [view |-> "warning:Transaction not found"]

\* C26: a POST /transactions request with a token that matches no tenant and
\* a payload that is not valid is answered 401, never 422, and reaches
\* neither the normalizer nor the store
C26_AuthBeforeValidation ==
    (/\ req[1].pc = "done"
     /\ req[1].token # NoValue
     /\ get_user_by_api_key(users, req[1].token) = NoUser
     /\ ~(req[1].body.json /\ TransactionCreate(req[1].body.payload)))
    => /\ req[1].outcome = "401"
       /\ ~req[1].reached
       /\ ~req[1].flushed

\* C28: when two sign-ups for the same new username both pass the existence
\* check, at most one tenant with that username is committed; the sign-up
\* that inserts second ends in an error, with no row of its own in the users
\* table and no user in its session; a session only ever holds a user that
\* is a committed tenant
C28_RacingSignups ==
    /\ [](\A b \in Browsers :
            req[b].user # NoUser => \E u \in users : SessionUser(u) = req[b].user)
    /\ [](\A b, c \in Browsers :
            (b # c /\ req[b].pc = "flushed" /\ req[c].pc = "flushed")
            => /\ req[b].row.username # req[c].row.username
               /\ req[b].row.api_key # req[c].row.api_key)
    /\ [][\A b \in Browsers :
            (/\ req[b].pc = "checked"
             /\ req'[b] # req[b]
             /\ \/ req[b].form[1] \in UsernamesOf(users)
                \/ \E c \in Browsers \ {b} : /\ req[c].pc = "flushed"
                                             /\ req[c].row.username = req[b].form[1])
            => /\ req'[b].page \in {Message("signup", "IntegrityError: users.username"),
                                    Message("signup", "OperationalError")}
               /\ req'[b].pc = "auth"
               /\ req'[b].user = NoUser
               /\ req'[b].row = NoUser
               /\ users' = users
               /\ Cardinality({u \in users : u.username = req[b].form[1]}) <= 1
         ]_vars

\* both browsers passed the check as dave; one created the account and is
\* logged in, the other was refused by the store
C28_Witness ==
    \E b, c \in Browsers :
       /\ req[b].page = Message("signup", "Account created!")
       /\ req[b].user.username = "dave"
       /\ req[c].page = Message("signup", "IntegrityError: users.username")
       /\ req[c].form[1] = "dave"
       /\ req[c].user = NoUser
       /\ Cardinality({u \in users : u.username = "dave"}) = 1

\* C27: the summary and the status breakdown of one dashboard snapshot are
\* those of a single state the committed store was in while the snapshot was
\* read, even when requests commit between its statements; so the success
\* count is at most the total count and the breakdown's counts sum to the
\* summary's total_transactions
C27_SnapshotConsistent ==
    snap.pc = Len(IsoOrder) + 1
    => \E S \in snap.stores :
          /\ snap.summary = get_summary(S, snap.key)
          /\ snap.statuses = get_status_breakdown(S, snap.key)

\* C29: a session opened by get_db or session_scope is closed in the end on
\* every path; commit is called on it only when the body returned; when the
\* body or the commit raised, it has been rolled back at least once, its row
\* is not in the store, and the exception reaches the caller; when neither
\* raised, its row is in the store and nothing is raised
C29_SessionLifecycle ==
    /\ [](\A s \in Sessions :
            /\ req[s].commits > 0 => req[s].body.exc = NoValue
            /\ req[s].commits <= 1
            /\ req[s].pc = "done"
               => /\ req[s].closed
                  /\ req[s].raised = req[s].exc
                  /\ req[s].exc # NoValue
                     => /\ req[s].rollbacks >= 1
                        /\ req[s].rollbacks > req[s].body.rollbacks
                        /\ req[s].row \notin committed
                  /\ req[s].exc = NoValue
                     => /\ req[s].commits = 1
                        /\ req[s].rollbacks = req[s].body.rollbacks
                        /\ req[s].body.flushed => req[s].row \in committed)
    /\ \A s \in Sessions : (req[s].pc # "none") ~> req[s].closed

\* one session was rolled back twice, by the handler on IntegrityError and
\* by get_db, and raised; another was committed, then its commit raised and
\* it was rolled back and raised; both are closed
C29_Witness ==
    \E s, t \in Sessions :
       /\ req[s].pc = "done" /\ req[s].opener = "get_db"
       /\ req[s].rollbacks = 2 /\ req[s].raised = "HTTPException" /\ req[s].closed
       /\ req[t].pc = "done" /\ req[t].commits = 1
       /\ req[t].raised = "OperationalError" /\ req[t].rollbacks = 1 /\ req[t].closed

====
